---- MODULE Spec2Model ----
(***************************************************************************)
(* Model of randomart: the concurrent frame pipeline of package render     *)
(* (pool, worker, frames) and the weighted generator of package nodes      *)
(* (Grammar.Gen, Production.Gen and the Gen methods of the templates).     *)
(***************************************************************************)
EXTENDS Integers, Sequences, FiniteSets, TLC

(***************************************************************************)
(* Bounds of the model.                                                    *)
(***************************************************************************)
MaxFrames == 3
MaxDepthBound == 2
MaxTriesBound == 2
MaxSeed == 15

(***************************************************************************)
(* Program constants.                                                      *)
(***************************************************************************)
PoolFloor == 10
ChanFactor == 10

\* float64 values are modelled exactly, as multiples of a unit: a weight w
\* stands for w / WeightDen, a uniform draw d for d / DrawDen
WeightDen == 4
DrawDen == 4

VARIABLES
    frames,          \* options.frames
    badFrames,       \* the frame indices at which some pixel fails to evaluate
    ctxDone,         \* the caller's context is cancelled
    cancelCalled,    \* pool.cancel() has been called
    jobs,            \* pool.jobs: the buffered job channel
    jobsClosed,      \* close(p.jobs) has happened
    results,         \* pool.results: the buffered result channel
    resultsClosed,   \* close(p.results) has happened
    wIdle,           \* number of workers waiting in the outer select
    wProc,           \* the jobs some worker is processing
    wSend,           \* the results some worker is waiting to send
    wExited,         \* number of workers that returned (wg.Done)
    rendered,        \* per frame index, how often process() started on it
    dNext,           \* the dispatcher's loop variable
    dpc,             \* the dispatcher goroutine: "run" or "exited"
    pc,              \* the goroutine running frames()
    expectedFrame,   \* frames(): expectedFrame
    buf,             \* frames(): the reorder buffer
    yielded,         \* everything yield() was called with, in order
    consumerStopped, \* some yield returned false
    panicked,        \* a goroutine panicked: the process is gone
    caller,          \* the exported function that ranges over frames()
    frameNo,         \* RenderCallback: frameNo
    callbacks,       \* RenderCallback: the calls of callback, in order
    ret,             \* what the caller's return statement was given
    grammar,         \* the *Grammar: Productions with their Alternatives
    opts,            \* generatorStateOptions: Seed, MaxDepth, MaxGenerationTries
    rules,           \* GeneratorState.rules
    rngPos,          \* how many values GeneratorState.seed has produced
    drawLog,         \* the values it produced, in order
    gpc,             \* Grammar.Gen: "start", "gen" or "done"
    stack,           \* the Gen calls waiting for a nested Gen call
    ctl,             \* the Gen call about to run, or the value just returned
    expansions,      \* how many times Production.Gen was entered
    genResult,       \* what Grammar.Gen returned
    run,             \* 1: the first call of Grammar.Gen, 2: the replay
    first,           \* what the first call returned, drew and emitted
    est,             \* the nodes.State the running renderPoint calls were given
    ectl,            \* per renderPoint call: the Eval call about to run, or
                     \* the value just returned
    estack,          \* per renderPoint call: the Eval calls waiting for a child
    eout,            \* per renderPoint call: what it returned
    etrace           \* per renderPoint call: the nodes Eval was called on

rvars == <<frames, badFrames, ctxDone, cancelCalled, jobs, jobsClosed, results,
           resultsClosed, wIdle, wProc, wSend, wExited, rendered, dNext, dpc,
           pc, expectedFrame, buf, yielded, consumerStopped, panicked>>

gvars == <<grammar, opts, rules, rngPos, drawLog, gpc, stack, ctl, expansions,
           genResult, run, first>>

cvars == <<caller, frameNo, callbacks, ret>>

evars == <<est, ectl, estack, eout, etrace>>

vars == <<rvars, cvars, gvars, evars>>

----------------------------------------------------------------------------
(***************************************************************************)
(* package render: helpers                                                 *)
(***************************************************************************)
Max(a, b) == IF a >= b THEN a ELSE b

\* frames(): newPool(ctx, max(options.frames, 10), ...)
Workers == Max(frames, PoolFloor)

ChanCapUnscaled == Workers \div ChanFactor

\* newPool: make(chan J, workers*10), make(chan R, workers*10)
ChanCap == Workers * ChanFactor

\* poolCtx, cancel = context.WithCancel(ctx): done when the parent is done
\* or cancel was called
PoolDone == ctxDone \/ cancelCalled

NoImage == -1
NoFrame == -1

\* image.NewRGBA filled by the raster loop of frame f: the image of frame f
ImageOf(f) == f

\* the process func handed to newPool: a frameResult with either err or img
process(f) ==
    IF f \in badFrames
    THEN [frame |-> f, img |-> NoImage, err |-> TRUE]
    ELSE [frame |-> f, img |-> ImageOf(f), err |-> FALSE]

RECURSIVE InsertByFrame(_, _)
InsertByFrame(s, r) ==
    IF s = <<>> THEN <<r>>
    ELSE IF r.frame - s[Len(s)].frame < 0
         THEN Append(InsertByFrame(SubSeq(s, 1, Len(s) - 1), r), s[Len(s)])
         ELSE Append(s, r)

RECURSIVE InsertionSort(_)
InsertionSort(s) ==
    IF s = <<>> THEN <<>>
    ELSE InsertByFrame(InsertionSort(SubSeq(s, 1, Len(s) - 1)), s[Len(s)])

sortBufUnsorted(b) == b

\* sortBuf: slices.SortFunc(buf, a.frame - b.frame)
sortBuf(b) == InsertionSort(b)

ClassifyNoOrder(result, expected) ==
    IF result.err THEN "error" ELSE "emit"

ClassifyNoError(result, expected) ==
    IF result.frame # expected THEN "buffer" ELSE "emit"

\* the three branches of the results case of the reassembly loop
Classify(result, expected) ==
    IF result.err THEN "error"
    ELSE IF result.frame # expected THEN "buffer"
    ELSE "emit"

DrainCountNone(b, expected) == 0

\* the drain loop: how many heads of buf carry the frames expected next
RECURSIVE DrainCount(_, _)
DrainCount(b, expected) ==
    IF b = <<>> THEN 0
    ELSE IF b[1].frame # expected THEN 0
    ELSE 1 + DrainCount(Tail(b), expected + 1)

ImgItem(i) == [kind |-> "img", v |-> i]
ErrItem(f) == [kind |-> "err", v |-> f]

\* the values Render and RenderCallback return: an image (or none) and an
\* error: nil, the error yielded by frames(), or the error of the callback
NilErr == [e |-> "nil"]
CallbackErr == [e |-> "callback"]
YieldedErr(f) == [e |-> "yielded", v |-> f]
NoRet == [none |-> TRUE]
Return(img, err) == [img |-> img, err |-> err]

\* RenderCallback: callback(frameNo, frame)
Callback(no, img) == [no |-> no, img |-> img]

\* what y(result.img) and the drain loop hand to yield when nobody stops
EmitList(result, b, expected) ==
    <<ImgItem(result.img)>> \o
    [i \in 1..DrainCount(b, expected + 1) |-> ImgItem(b[i].img)]

----------------------------------------------------------------------------
(***************************************************************************)
(* package render: the goroutines                                          *)
(***************************************************************************)
Alive == ~panicked

InitRender ==
    /\ frames \in 1..MaxFrames
    /\ badFrames \in SUBSET (0..(frames - 1))
    /\ ctxDone = FALSE
    /\ cancelCalled = FALSE
    /\ jobs = <<>>
    /\ jobsClosed = FALSE
    /\ results = <<>>
    /\ resultsClosed = FALSE
    /\ wIdle = Workers
    /\ wProc = {}
    /\ wSend = {}
    /\ wExited = 0
    /\ rendered = [f \in 0..(frames - 1) |-> 0]
    /\ dNext = 0
    /\ dpc = "run"
    /\ pc = "loop"
    /\ expectedFrame = 0
    /\ buf = <<>>
    /\ yielded = <<>>
    /\ consumerStopped = FALSE
    /\ panicked = FALSE
    /\ caller \in {"Render", "RenderCallback"}
    /\ frameNo = 0
    /\ callbacks = <<>>
    /\ ret = NoRet

\* the caller's context is cancelled (signal, timeout, the consumer)
CancelCtx ==
    /\ Alive /\ ~ctxDone /\ pc # "returned"
    /\ ctxDone' = TRUE
    /\ UNCHANGED <<frames, badFrames, cancelCalled, jobs, jobsClosed, results,
                   resultsClosed, wIdle, wProc, wSend, wExited, rendered, dNext,
                   dpc, pc, expectedFrame, buf, yielded, consumerStopped, panicked>>
    /\ UNCHANGED cvars
    /\ UNCHANGED gvars
    /\ UNCHANGED evars

\* worker: case job, ok := <-jobs with ok
WorkerRecv ==
    /\ Alive /\ wIdle > 0 /\ jobs # <<>>
    /\ wIdle' = wIdle - 1
    /\ wProc' = wProc \cup {Head(jobs)}
    /\ rendered' = [rendered EXCEPT ![Head(jobs)] = @ + 1]
    /\ jobs' = Tail(jobs)
    /\ UNCHANGED <<frames, badFrames, ctxDone, cancelCalled, jobsClosed, results,
                   resultsClosed, wSend, wExited, dNext, dpc, pc, expectedFrame,
                   buf, yielded, consumerStopped, panicked>>
    /\ UNCHANGED cvars
    /\ UNCHANGED gvars
    /\ UNCHANGED evars

\* worker: result := process(job) returns
WorkerProcess ==
    /\ Alive
    /\ \E f \in wProc :
        /\ wProc' = wProc \ {f}
        /\ wSend' = wSend \cup {f}
    /\ UNCHANGED <<frames, badFrames, ctxDone, cancelCalled, jobs, jobsClosed,
                   results, resultsClosed, wIdle, wExited, rendered, dNext, dpc,
                   pc, expectedFrame, buf, yielded, consumerStopped, panicked>>
    /\ UNCHANGED cvars
    /\ UNCHANGED gvars
    /\ UNCHANGED evars

\* worker: case results <- result
WorkerSend ==
    /\ Alive
    /\ \E f \in wSend :
        /\ IF resultsClosed
           THEN /\ panicked' = TRUE
                /\ UNCHANGED <<results, wSend, wIdle>>
           ELSE /\ Len(results) < ChanCap
                /\ results' = Append(results, process(f))
                /\ wSend' = wSend \ {f}
                /\ wIdle' = wIdle + 1
                /\ UNCHANGED panicked
    /\ UNCHANGED <<frames, badFrames, ctxDone, cancelCalled, jobs, jobsClosed,
                   resultsClosed, wProc, wExited, rendered, dNext, dpc, pc,
                   expectedFrame, buf, yielded, consumerStopped>>
    /\ UNCHANGED cvars
    /\ UNCHANGED gvars
    /\ UNCHANGED evars

\* worker: case <-ctx.Done() of the inner select
WorkerSendCancelled ==
    /\ Alive /\ PoolDone
    /\ \E f \in wSend :
        /\ wSend' = wSend \ {f}
        /\ wExited' = wExited + 1
    /\ UNCHANGED <<frames, badFrames, ctxDone, cancelCalled, jobs, jobsClosed,
                   results, resultsClosed, wIdle, wProc, rendered, dNext, dpc, pc,
                   expectedFrame, buf, yielded, consumerStopped, panicked>>
    /\ UNCHANGED cvars
    /\ UNCHANGED gvars
    /\ UNCHANGED evars

\* worker: case <-ctx.Done() of the outer select
WorkerIdleCancelled ==
    /\ Alive /\ PoolDone /\ wIdle > 0
    /\ wIdle' = wIdle - 1
    /\ wExited' = wExited + 1
    /\ UNCHANGED <<frames, badFrames, ctxDone, cancelCalled, jobs, jobsClosed,
                   results, resultsClosed, wProc, wSend, rendered, dNext, dpc, pc,
                   expectedFrame, buf, yielded, consumerStopped, panicked>>
    /\ UNCHANGED cvars
    /\ UNCHANGED gvars
    /\ UNCHANGED evars

\* worker: case job, ok := <-jobs with !ok (closed and drained)
WorkerJobsClosed ==
    /\ Alive /\ jobsClosed /\ jobs = <<>> /\ wIdle > 0
    /\ wIdle' = wIdle - 1
    /\ wExited' = wExited + 1
    /\ UNCHANGED <<frames, badFrames, ctxDone, cancelCalled, jobs, jobsClosed,
                   results, resultsClosed, wProc, wSend, rendered, dNext, dpc, pc,
                   expectedFrame, buf, yielded, consumerStopped, panicked>>
    /\ UNCHANGED cvars
    /\ UNCHANGED gvars
    /\ UNCHANGED evars

\* dispatcher, pool.run: case p.jobs <- job
DispatchSend ==
    /\ Alive /\ dpc = "run" /\ dNext < frames
    /\ IF jobsClosed
       THEN /\ panicked' = TRUE
            /\ UNCHANGED <<jobs, dNext>>
       ELSE /\ Len(jobs) < ChanCap
            /\ jobs' = Append(jobs, dNext)
            /\ dNext' = dNext + 1
            /\ UNCHANGED panicked
    /\ UNCHANGED <<frames, badFrames, ctxDone, cancelCalled, jobsClosed, results,
                   resultsClosed, wIdle, wProc, wSend, wExited, rendered, dpc, pc,
                   expectedFrame, buf, yielded, consumerStopped>>
    /\ UNCHANGED cvars
    /\ UNCHANGED gvars
    /\ UNCHANGED evars

\* dispatcher, pool.run: case <-ctx.Done() or case <-p.ctx.Done(), then return
DispatchCancelled ==
    /\ Alive /\ dpc = "run" /\ dNext < frames
    /\ PoolDone
    /\ dpc' = "exited"
    /\ UNCHANGED <<frames, badFrames, ctxDone, cancelCalled, jobs, jobsClosed,
                   results, resultsClosed, wIdle, wProc, wSend, wExited, rendered,
                   dNext, pc, expectedFrame, buf, yielded, consumerStopped, panicked>>
    /\ UNCHANGED cvars
    /\ UNCHANGED gvars
    /\ UNCHANGED evars

\* dispatcher: the range loop is over, the goroutine ends
DispatchFinish ==
    /\ Alive /\ dpc = "run" /\ dNext = frames
    /\ dpc' = "exited"
    /\ UNCHANGED <<frames, badFrames, ctxDone, cancelCalled, jobs, jobsClosed,
                   results, resultsClosed, wIdle, wProc, wSend, wExited, rendered,
                   dNext, pc, expectedFrame, buf, yielded, consumerStopped, panicked>>
    /\ UNCHANGED cvars
    /\ UNCHANGED gvars
    /\ UNCHANGED evars

\* frames(): case <-ctx.Done(): yield(nil, ctx.Err()); return; the caller
\* returns the error
MainCtxDone ==
    /\ Alive /\ pc = "loop" /\ expectedFrame < frames
    /\ ctxDone
    /\ yielded' = Append(yielded, ErrItem(NoFrame))
    /\ pc' = "stop"
    /\ ret' = Return(NoImage, YieldedErr(NoFrame))
    /\ UNCHANGED <<frames, badFrames, ctxDone, cancelCalled, jobs, jobsClosed,
                   results, resultsClosed, wIdle, wProc, wSend, wExited, rendered,
                   dNext, dpc, expectedFrame, buf, consumerStopped, panicked>>
    /\ UNCHANGED <<caller, frameNo, callbacks>>
    /\ UNCHANGED gvars
    /\ UNCHANGED evars

\* frames(): case result, ok := <-framePool.results, one whole iteration,
\* with what the body of the caller's range loop does at each yield
MainRecv ==
    /\ Alive /\ pc = "loop" /\ expectedFrame < frames
    /\ results # <<>>
    /\ results' = Tail(results)
    /\ LET result == Head(results)
           what == Classify(result, expectedFrame)
       IN  CASE what = "error" ->
                 /\ yielded' = Append(yielded, ErrItem(result.frame))
                 /\ pc' = "stop"
                 /\ ret' = Return(NoImage, YieldedErr(result.frame))
                 /\ UNCHANGED <<expectedFrame, buf, consumerStopped, frameNo,
                                callbacks>>
             [] what = "buffer" ->
                 /\ buf' = sortBuf(Append(buf, result))
                 /\ UNCHANGED <<yielded, pc, expectedFrame, consumerStopped,
                                frameNo, callbacks, ret>>
             [] what = "emit" ->
                 LET all == EmitList(result, buf, expectedFrame)
                 IN  \E m \in 1..Len(all), stop \in BOOLEAN :
                        /\ (m < Len(all)) => stop
                        /\ (caller = "Render") => (m = 1 /\ stop)
                        /\ yielded' = yielded \o SubSeq(all, 1, m)
                        /\ expectedFrame' = expectedFrame + m
                        /\ buf' = SubSeq(buf, m, Len(buf))
                        /\ consumerStopped' = (consumerStopped \/ stop)
                        /\ pc' = IF stop THEN "stop" ELSE "loop"
                        /\ IF caller = "Render"
                           THEN /\ ret' = Return(all[1].v, NilErr)
                                /\ UNCHANGED <<frameNo, callbacks>>
                           ELSE /\ callbacks' = callbacks \o
                                     [i \in 1..m |-> Callback(frameNo + i - 1, all[i].v)]
                                /\ frameNo' = frameNo + (IF stop THEN m - 1 ELSE m)
                                /\ ret' = IF stop THEN Return(NoImage, CallbackErr)
                                          ELSE ret
    /\ UNCHANGED <<frames, badFrames, ctxDone, cancelCalled, jobs, jobsClosed,
                   resultsClosed, wIdle, wProc, wSend, wExited, rendered, dNext,
                   dpc, panicked, caller>>
    /\ UNCHANGED gvars
    /\ UNCHANGED evars

\* frames(): the loop condition fails, the timing statistics are logged
MainLoopExit ==
    /\ Alive /\ pc = "loop" /\ expectedFrame >= frames
    /\ pc' = "stop"
    /\ UNCHANGED <<frames, badFrames, ctxDone, cancelCalled, jobs, jobsClosed,
                   results, resultsClosed, wIdle, wProc, wSend, wExited, rendered,
                   dNext, dpc, expectedFrame, buf, yielded, consumerStopped, panicked>>
    /\ UNCHANGED cvars
    /\ UNCHANGED gvars
    /\ UNCHANGED evars

\* stopAndWait: p.cancel()
StopCancel ==
    /\ Alive /\ pc = "stop"
    /\ cancelCalled' = TRUE
    /\ pc' = "closeJobs"
    /\ UNCHANGED <<frames, badFrames, ctxDone, jobs, jobsClosed, results,
                   resultsClosed, wIdle, wProc, wSend, wExited, rendered, dNext,
                   dpc, expectedFrame, buf, yielded, consumerStopped, panicked>>
    /\ UNCHANGED cvars
    /\ UNCHANGED gvars
    /\ UNCHANGED evars

\* stopAndWait: close(p.jobs)
StopCloseJobs ==
    /\ Alive /\ pc = "closeJobs"
    /\ jobsClosed' = TRUE
    /\ pc' = "wait"
    /\ UNCHANGED <<frames, badFrames, ctxDone, cancelCalled, jobs, results,
                   resultsClosed, wIdle, wProc, wSend, wExited, rendered, dNext,
                   dpc, expectedFrame, buf, yielded, consumerStopped, panicked>>
    /\ UNCHANGED cvars
    /\ UNCHANGED gvars
    /\ UNCHANGED evars

\* stopAndWait: p.wg.Wait() returns
StopWait ==
    /\ Alive /\ pc = "wait"
    /\ wExited = Workers
    /\ pc' = "closeResults"
    /\ UNCHANGED <<frames, badFrames, ctxDone, cancelCalled, jobs, jobsClosed,
                   results, resultsClosed, wIdle, wProc, wSend, wExited, rendered,
                   dNext, dpc, expectedFrame, buf, yielded, consumerStopped, panicked>>
    /\ UNCHANGED cvars
    /\ UNCHANGED gvars
    /\ UNCHANGED evars

\* stopAndWait: close(p.results), frames() returns and so does its caller
StopCloseResults ==
    /\ Alive /\ pc = "closeResults"
    /\ resultsClosed' = TRUE
    /\ pc' = "returned"
    /\ ret' = IF ret = NoRet THEN Return(NoImage, NilErr) ELSE ret
    /\ UNCHANGED <<frames, badFrames, ctxDone, cancelCalled, jobs, jobsClosed,
                   results, wIdle, wProc, wSend, wExited, rendered, dNext, dpc,
                   expectedFrame, buf, yielded, consumerStopped, panicked>>
    /\ UNCHANGED <<caller, frameNo, callbacks>>
    /\ UNCHANGED gvars
    /\ UNCHANGED evars

WorkerStep ==
    \/ WorkerRecv
    \/ WorkerProcess
    \/ WorkerSend
    \/ WorkerSendCancelled
    \/ WorkerIdleCancelled
    \/ WorkerJobsClosed

DispatcherStep ==
    \/ DispatchSend
    \/ DispatchCancelled
    \/ DispatchFinish

MainStep ==
    \/ MainCtxDone
    \/ MainRecv
    \/ MainLoopExit
    \/ StopCancel
    \/ StopCloseJobs
    \/ StopWait
    \/ StopCloseResults

NextRender ==
    \/ CancelCtx
    \/ WorkerRecv
    \/ WorkerProcess
    \/ WorkerSend
    \/ WorkerSendCancelled
    \/ WorkerIdleCancelled
    \/ WorkerJobsClosed
    \/ DispatchSend
    \/ DispatchCancelled
    \/ DispatchFinish
    \/ MainCtxDone
    \/ MainRecv
    \/ MainLoopExit
    \/ StopCancel
    \/ StopCloseJobs
    \/ StopWait
    \/ StopCloseResults

----------------------------------------------------------------------------
(***************************************************************************)
(* package nodes: templates, nodes and errors                              *)
(***************************************************************************)
\* the Alternate implementations
Number(v) == [t |-> "num", v |-> v]
Bool(b) == [t |-> "bool", b |-> b]
Component(c) == [t |-> "comp", c |-> c]
Random == [t |-> "rand"]
Rule(name) == [t |-> "rule", name |-> name]
Func(o, l, r) == [t |-> "func", kids |-> <<l, r>>, o |-> o]
Triplet(a, b, c) == [t |-> "triplet", kids |-> <<a, b, c>>]
IfThenElse(c, a, b) == [t |-> "ite", kids |-> <<c, a, b>>]

AlternateWithProb(a, w) == [alt |-> a, prob |-> w]
Production(name, alts) == [name |-> name, alts |-> alts]

\* the Node implementations the Gen methods build
NilNode == [n |-> "nil"]
NumberValue(v) == [n |-> "num", v |-> v]
BooleanValue(b) == [n |-> "bool", b |-> b]
ComponentRef(c) == [n |-> "comp", c |-> c]
OpNode(o, kids) == [n |-> "op", kids |-> kids, o |-> o]
TripleNode(kids) == [n |-> "triple", kids |-> kids]
IfNode(kids) == [n |-> "ite", kids |-> kids]

NoErr == "nil"
ErrReachedMaxDepth == "reached max depth"
ErrReachedMaxGenerationTries == "reached max generation tries"
ErrRuleDoesNotExist == "rule does not exist"
ErrDefinedMultipleTimes == "defined multiple times"
ErrWeightsExceed == "weights exceed 1"

(***************************************************************************)
(* float64: the values the grammars, the coordinates and the operators     *)
(* produce, kept exact: a sign, a magnitude m/d in lowest terms, and the   *)
(* special values NaN and +Inf, -Inf; zero keeps its sign                   *)
(***************************************************************************)
RECURSIVE GCD(_, _)
GCD(a, b) == IF b = 0 THEN a ELSE GCD(b, a % b)

Abs(n) == IF n < 0 THEN 0 - n ELSE n

NaN == [k |-> "nan", neg |-> FALSE, m |-> 0, d |-> 1]

Inf(neg) == [k |-> "inf", neg |-> neg, m |-> 0, d |-> 1]

Fin(neg, m, d) ==
    LET g == GCD(m, d) IN [k |-> "fin", neg |-> neg, m |-> m \div g, d |-> d \div g]

\* float64(n) / d for an integer n and a d > 0 that divides exactly
Float(n, d) == Fin(n < 0, Abs(n), d)

IsZero(a) == a.k = "fin" /\ a.m = 0

Num(a) == IF a.neg THEN 0 - a.m ELSE a.m

Neg(a) == IF a.k = "nan" THEN a ELSE [a EXCEPT !.neg = ~a.neg]

\* leftN + rightN
opAdd(a, b) ==
    IF a.k = "nan" \/ b.k = "nan" THEN NaN
    ELSE IF a.k = "inf" /\ b.k = "inf"
         THEN IF a.neg = b.neg THEN a ELSE NaN
    ELSE IF a.k = "inf" THEN a
    ELSE IF b.k = "inf" THEN b
    ELSE LET n == Num(a) * b.d + Num(b) * a.d
         IN  IF n = 0 THEN Fin(a.neg /\ b.neg, 0, 1)
             ELSE Fin(n < 0, Abs(n), a.d * b.d)

\* leftN - rightN
opSub(a, b) == opAdd(a, Neg(b))

\* leftN * rightN
opMul(a, b) ==
    IF a.k = "nan" \/ b.k = "nan" THEN NaN
    ELSE IF (a.k = "inf" /\ IsZero(b)) \/ (IsZero(a) /\ b.k = "inf") THEN NaN
    ELSE IF a.k = "inf" \/ b.k = "inf" THEN Inf(a.neg # b.neg)
    ELSE Fin(a.neg # b.neg, a.m * b.m, a.d * b.d)

\* leftN / rightN: IEEE 754, a zero divisor gives an infinity or NaN
opDiv(a, b) ==
    IF a.k = "nan" \/ b.k = "nan" THEN NaN
    ELSE IF a.k = "inf" /\ b.k = "inf" THEN NaN
    ELSE IF IsZero(a) /\ IsZero(b) THEN NaN
    ELSE IF a.k = "inf" \/ IsZero(b) THEN Inf(a.neg # b.neg)
    ELSE IF b.k = "inf" THEN Fin(a.neg # b.neg, 0, 1)
    ELSE Fin(a.neg # b.neg, a.m * b.d, a.d * b.m)

\* math.Mod(leftN, rightN): the remainder has the sign of leftN
opMod(a, b) ==
    IF a.k = "nan" \/ b.k = "nan" \/ a.k = "inf" \/ IsZero(b) THEN NaN
    ELSE IF b.k = "inf" THEN a
    ELSE LET q == (a.m * b.d) \div (a.d * b.m)
         IN  Fin(a.neg, a.m * b.d - q * a.d * b.m, a.d * b.d)

\* leftN < rightN; every comparison with NaN is false
opLt(a, b) ==
    IF a.k = "nan" \/ b.k = "nan" THEN FALSE
    ELSE IF a.k = "inf" THEN a.neg /\ ~(b.k = "inf" /\ b.neg)
    ELSE IF b.k = "inf" THEN ~b.neg
    ELSE Num(a) * b.d < Num(b) * a.d

\* leftN <= rightN
opLe(a, b) ==
    IF a.k = "nan" \/ b.k = "nan" THEN FALSE ELSE ~opLt(b, a)

\* leftN > rightN
opGt(a, b) == opLt(b, a)

\* leftN >= rightN
opGe(a, b) == opLe(b, a)

(***************************************************************************)
(* package nodes: the random source                                        *)
(***************************************************************************)
\* rand.New(rand.NewPCG(seed, seed+1)).Float64(), the pos-th call (from 0):
\* a fixed function of the seed and the position, here the digits of the seed
Float64(seed, pos) ==
    IF pos % 2 = 0 THEN seed % DrawDen ELSE (seed \div DrawDen) % DrawDen

NewRandShared(pos) == pos

\* rand.New(...) in Grammar.Gen: a fresh source, at its first value
NewRand(pos) == 0

(***************************************************************************)
(* package nodes: GeneratorState.Options and FromJSON                      *)
(***************************************************************************)
RECURSIVE FormatUint(_)
FormatUint(n) ==
    IF n < 10 THEN <<n>> ELSE Append(FormatUint(n \div 10), n % 10)

RECURSIVE ParseUint(_)
ParseUint(ds) ==
    IF ds = <<>> THEN 0
    ELSE 10 * ParseUint(SubSeq(ds, 1, Len(ds) - 1)) + ds[Len(ds)]

FormatInt(n) ==
    IF n < 0 THEN [neg |-> TRUE, digits |-> FormatUint(0 - n)]
    ELSE [neg |-> FALSE, digits |-> FormatUint(n)]

ParseInt(e) ==
    IF e.neg THEN 0 - ParseUint(e.digits) ELSE ParseUint(e.digits)

\* GeneratorState.Options: json.Encode of the three option fields
Options(o) ==
    [seed |-> FormatInt(o.Seed),
     max_depth |-> FormatInt(o.MaxDepth),
     max_generation_tries |-> FormatInt(o.MaxGenerationTries)]

\* FromJSON: json.Decode into generatorStateOptions
FromJSON(j) ==
    [Seed |-> ParseInt(j.seed),
     MaxDepth |-> ParseInt(j.max_depth),
     MaxGenerationTries |-> ParseInt(j.max_generation_tries)]

(***************************************************************************)
(* package nodes: the resolution loop of Grammar.Gen                       *)
(***************************************************************************)
\* the comparison handed to slices.SortFunc: int(a.Probability - b.Probability),
\* a conversion that truncates towards zero; Less is "the result is negative"
SortCmpLess(a, b) == a.prob - b.prob <= 0 - WeightDen

\* slices.SortFunc on a short slice: insertion sort, moving the new element
\* left while it compares less than its left neighbour
RECURSIVE InsertLeft(_, _)
InsertLeft(s, e) ==
    IF s = <<>> THEN <<e>>
    ELSE IF SortCmpLess(e, s[Len(s)])
         THEN Append(InsertLeft(SubSeq(s, 1, Len(s) - 1), e), s[Len(s)])
         ELSE Append(s, e)

RECURSIVE SortFunc(_)
SortFunc(alts) ==
    IF alts = <<>> THEN <<>>
    ELSE InsertLeft(SortFunc(SubSeq(alts, 1, Len(alts) - 1)), alts[Len(alts)])

\* prod.totals as the loop would fill it if it never returned early
RECURSIVE Totals(_)
Totals(alts) ==
    IF alts = <<>> THEN <<>>
    ELSE LET before == Totals(SubSeq(alts, 1, Len(alts) - 1))
             sum == IF before = <<>> THEN 0 ELSE before[Len(before)]
         IN  Append(before, sum + alts[Len(alts)].prob)

ExceedsOneLax(totals) == FALSE

\* if prod.max > 1 { return ... } at some alternative
ExceedsOne(totals) == \E i \in 1..Len(totals) : totals[i] > WeightDen

DefinedBeforeLax(rs, name) == FALSE

\* if firstProduction, ok := s.rules[p.Name]; ok
DefinedBefore(rs, name) == name \in DOMAIN rs

\* the loop over g.Productions: the productions as the sort leaves them, the
\* rule table, and the error the loop returned with
RECURSIVE ResolveFrom(_, _, _)
ResolveFrom(g, i, rs) ==
    IF i > Len(g) THEN [err |-> NoErr, grammar |-> g, rules |-> rs]
    ELSE IF DefinedBefore(rs, g[i].name)
    THEN [err |-> ErrDefinedMultipleTimes, grammar |-> g, rules |-> rs]
    ELSE LET sorted == SortFunc(g[i].alts)
             g2 == [g EXCEPT ![i].alts = sorted]
             totals == Totals(sorted)
         IN  IF ExceedsOne(totals)
             THEN [err |-> ErrWeightsExceed, grammar |-> g2, rules |-> rs]
             ELSE ResolveFrom(g2, i + 1,
                      rs @@ (g[i].name :>
                          [idx |-> i, max |-> totals[Len(totals)], totals |-> totals]))

Resolve(g) == ResolveFrom(g, 1, <<>>)

(***************************************************************************)
(* package nodes: Production.Gen and the Gen methods                       *)
(***************************************************************************)
\* slices.BinarySearch(prod.totals, x) with x = d/DrawDen * max: the loop
\* between i and j (0-based), comparing totals[h] < x
RECURSIVE BinarySearchAfter(_, _, _, _, _)
BinarySearchAfter(totals, d, max, i, j) ==
    IF i < j
    THEN LET h == (i + j) \div 2
         IN  IF totals[h + 1] * DrawDen <= d * max
             THEN BinarySearchAfter(totals, d, max, h + 1, j)
             ELSE BinarySearchAfter(totals, d, max, i, h)
    ELSE i

RECURSIVE BinarySearch(_, _, _, _, _)
BinarySearch(totals, d, max, i, j) ==
    IF i < j
    THEN LET h == (i + j) \div 2
         IN  IF totals[h + 1] * DrawDen < d * max
             THEN BinarySearch(totals, d, max, h + 1, j)
             ELSE BinarySearch(totals, d, max, i, h)
    ELSE i

Min(a, b) == IF a <= b THEN a ELSE b

\* aNo: the 0-based index of the alternative selected for the draw d
SelectAlternative(prod, d, n) ==
    Min(BinarySearch(prod.totals, d, prod.max, 0, Len(prod.totals)), n - 1)

DepthExhaustedLate(depth) == depth < 0

DepthExhaustedEarly(depth) == depth <= 1

\* if depth <= 0
DepthExhausted(depth) == depth <= 0

HasTryLeftOneMore(try, o) == try <= o.MaxGenerationTries

\* try < state.MaxGenerationTries
HasTryLeft(try, o) == try < o.MaxGenerationTries

IsFatalNever(err) == FALSE

IsFatalAlways(err) == TRUE

\* errors.Is(err, ErrRuleDoesNotExist)
IsFatal(err) == err = ErrRuleDoesNotExist

\* the node a Func, Triplet or IfThenElse builds from its generated children
BuildNode(tpl, kids) ==
    CASE tpl.t = "func" -> OpNode(tpl.o, kids)
      [] tpl.t = "triplet" -> TripleNode(kids)
      [] tpl.t = "ite" -> IfNode(kids)

\* Number.Gen, Bool.Gen, Component.Gen; the Value of a Number is written in
\* units of 1/WeightDen
LeafNode(tpl) ==
    CASE tpl.t = "num" -> NumberValue(Float(tpl.v, WeightDen))
      [] tpl.t = "bool" -> BooleanValue(tpl.b)
      [] tpl.t = "comp" -> ComponentRef(tpl.c)

\* Random.Gen: state.seed.Float64()*2 - 1, in units of 1/DrawDen
RandomNodeLazy(d) == ComponentRef("x")

RandomNode(d) == NumberValue(Float(2 * d - DrawDen, DrawDen))

Ret(node, err) == [m |-> "ret", node |-> node, err |-> err]
CallGen(tpl, depth) == [m |-> "gen", tpl |-> tpl, depth |-> depth]
CallProd(name, depth) == [m |-> "prod", name |-> name, depth |-> depth]
ProdFrame(name, depth, try) ==
    [f |-> "prod", name |-> name, depth |-> depth, try |-> try]
NodeFrame(tpl, depth, got) ==
    [f |-> "node", tpl |-> tpl, depth |-> depth, got |-> got]

Top == stack[Len(stack)]
Pop == SubSeq(stack, 1, Len(stack) - 1)

(***************************************************************************)
(* The grammars and options Grammar.Gen is run on                          *)
(***************************************************************************)
X == Component("x")
Y == Component("y")
S == Rule("S")
A == Rule("A")
B == Rule("B")

Grammars == {
    \* S ::= {?, ?, ?} %1 .
    <<Production("S", <<AlternateWithProb(Triplet(Random, Random, Random), 4)>>)>>,
    \* S ::= S %1 .
    <<Production("S", <<AlternateWithProb(S, 4)>>)>>,
    \* S ::= {x, S, ?} %0.5 | add(S, S) %0.5 .
    <<Production("S", <<AlternateWithProb(Triplet(X, S, Random), 2),
                        AlternateWithProb(Func("add", S, S), 2)>>)>>,
    \* S ::= A %1 .  A ::= S %1 .
    <<Production("S", <<AlternateWithProb(A, 4)>>),
      Production("A", <<AlternateWithProb(S, 4)>>)>>,
    \* S ::= S %0.5 | x %0.5 .
    <<Production("S", <<AlternateWithProb(S, 2), AlternateWithProb(X, 2)>>)>>,
    \* S ::= {A, A, 1} %1 .  A ::= x %0.25 | ? %0.75 .
    <<Production("S", <<AlternateWithProb(Triplet(A, A, Number(4)), 4)>>),
      Production("A", <<AlternateWithProb(X, 1), AlternateWithProb(Random, 3)>>)>>,
    \* S ::= if true then A else ? %0.5 | gt(x, A) %0.25 .  A ::= ? %1 .
    <<Production("S", <<AlternateWithProb(IfThenElse(Bool(TRUE), A, Random), 2),
                        AlternateWithProb(Func("gt", X, A), 1)>>),
      Production("A", <<AlternateWithProb(Random, 4)>>)>>,
    \* S ::= x %1 | ? %0 .
    <<Production("S", <<AlternateWithProb(X, 4), AlternateWithProb(Random, 0)>>)>>,
    \* S ::= x %0 .
    <<Production("S", <<AlternateWithProb(X, 0)>>)>>,
    \* S ::= B %1 .
    <<Production("S", <<AlternateWithProb(B, 4)>>)>>,
    \* S ::= x %0.5 | {x, B, S} %0.5 .
    <<Production("S", <<AlternateWithProb(X, 2),
                        AlternateWithProb(Triplet(X, B, S), 2)>>)>>,
    \* S ::= A %1 .  A ::= B %0.5 | A %0.5 .
    <<Production("S", <<AlternateWithProb(A, 4)>>),
      Production("A", <<AlternateWithProb(B, 2), AlternateWithProb(A, 2)>>)>>,
    \* S ::= x %1 .  S ::= ? %1 .
    <<Production("S", <<AlternateWithProb(X, 4)>>),
      Production("S", <<AlternateWithProb(Random, 4)>>)>>,
    \* S ::= x %0.75 | ? %0.5 .
    <<Production("S", <<AlternateWithProb(X, 3), AlternateWithProb(Random, 2)>>)>>,
    \* S ::= ? %1 | x %0 .  A ::= x %1 | ? %1 .
    <<Production("S", <<AlternateWithProb(Random, 4), AlternateWithProb(X, 0)>>),
      Production("A", <<AlternateWithProb(X, 4), AlternateWithProb(Random, 4)>>)>>,
    \* S ::= add(x, y) %1 .
    <<Production("S", <<AlternateWithProb(Func("add", X, Y), 4)>>)>>,
    \* S ::= add(x, A) %0.25 | sub(x, A) %0.25 | mul(x, A) %0.5 .  A ::= ? %1 .
    <<Production("S", <<AlternateWithProb(Func("add", X, A), 1),
                        AlternateWithProb(Func("sub", X, A), 1),
                        AlternateWithProb(Func("mul", X, A), 2)>>),
      Production("A", <<AlternateWithProb(Random, 4)>>)>>,
    \* S ::= div(x, A) %0.25 | mod(x, A) %0.25 | ge(x, A) %0.5 .  A ::= ? %1 .
    <<Production("S", <<AlternateWithProb(Func("div", X, A), 1),
                        AlternateWithProb(Func("mod", X, A), 1),
                        AlternateWithProb(Func("ge", X, A), 2)>>),
      Production("A", <<AlternateWithProb(Random, 4)>>)>>,
    \* S ::= lt(x, A) %0.25 | le(y, A) %0.25 | gt(y, A) %0.5 .  A ::= ? %1 .
    <<Production("S", <<AlternateWithProb(Func("lt", X, A), 1),
                        AlternateWithProb(Func("le", Y, A), 1),
                        AlternateWithProb(Func("gt", Y, A), 2)>>),
      Production("A", <<AlternateWithProb(Random, 4)>>)>>,
    \* S ::= if gt(x, 0) then {x, y, f} else add(true, x) %1 .
    <<Production("S", <<AlternateWithProb(
          IfThenElse(Func("gt", X, Number(0)), Triplet(X, Y, Component("f")),
                     Func("add", Bool(TRUE), X)), 4)>>)>>,
    \* S ::= if true then {?, x, 1} else add(true, x) %0.5
    \*     | if false then sub(x, false) else {?, y, f} %0.5 .
    <<Production("S", <<AlternateWithProb(
          IfThenElse(Bool(TRUE), Triplet(Random, X, Number(4)),
                     Func("add", Bool(TRUE), X)), 2),
                        AlternateWithProb(
          IfThenElse(Bool(FALSE), Func("sub", X, Bool(FALSE)),
                     Triplet(Random, Y, Component("f"))), 2)>>)>>,
    \* S ::= if x then x else y %0.25 | {gt(x, y), x, ?} %0.25
    \*     | {mul(true, x), x, f} %0.5 .
    <<Production("S", <<AlternateWithProb(IfThenElse(X, X, Y), 1),
                        AlternateWithProb(Triplet(Func("gt", X, Y), X, Random), 1),
                        AlternateWithProb(
          Triplet(Func("mul", Bool(TRUE), X), X, Component("f")), 2)>>)>>,
    \* S ::= A %0.5 | x %0.25 .  A ::= A %1 .
    <<Production("S", <<AlternateWithProb(A, 2), AlternateWithProb(X, 1)>>),
      Production("A", <<AlternateWithProb(A, 4)>>)>>
}

OptionSets ==
    [Seed : 0..MaxSeed,
     MaxDepth : 0..MaxDepthBound,
     MaxGenerationTries : 0..MaxTriesBound]

(***************************************************************************)
(* package nodes: Grammar.Gen as a machine                                 *)
(***************************************************************************)
InitGen ==
    /\ grammar \in Grammars
    /\ opts \in OptionSets
    /\ rules = <<>>
    /\ rngPos = 0
    /\ drawLog = <<>>
    /\ gpc = "start"
    /\ stack = <<>>
    /\ ctl = [m |-> "idle"]
    /\ expansions = 0
    /\ genResult = [node |-> NilNode, err |-> NoErr]
    /\ run = 1
    /\ first = <<>>

\* Grammar.Gen: the state is built and the resolution loop returns an error
GenRejected ==
    /\ gpc = "start"
    /\ LET r == Resolve(grammar)
       IN  /\ r.err # NoErr
           /\ grammar' = r.grammar
           /\ rules' = r.rules
           /\ genResult' = [node |-> NilNode, err |-> r.err]
    /\ rngPos' = NewRand(rngPos)
    /\ drawLog' = <<>>
    /\ gpc' = "done"
    /\ UNCHANGED <<opts, stack, ctl, expansions, run, first>>
    /\ UNCHANGED rvars
    /\ UNCHANGED cvars
    /\ UNCHANGED evars

\* Grammar.Gen: the resolution loop ends, g.Productions[0].Gen is called
GenResolved ==
    /\ gpc = "start"
    /\ LET r == Resolve(grammar)
       IN  /\ r.err = NoErr
           /\ grammar' = r.grammar
           /\ rules' = r.rules
           /\ ctl' = CallProd(r.grammar[1].name, opts.MaxDepth)
    /\ rngPos' = NewRand(rngPos)
    /\ drawLog' = <<>>
    /\ gpc' = "gen"
    /\ UNCHANGED <<opts, stack, expansions, genResult, run, first>>
    /\ UNCHANGED rvars
    /\ UNCHANGED cvars
    /\ UNCHANGED evars

\* Production.Gen: depth <= 0
ProdMaxDepth ==
    /\ gpc = "gen" /\ ctl.m = "prod"
    /\ DepthExhausted(ctl.depth)
    /\ ctl' = Ret(NilNode, ErrReachedMaxDepth)
    /\ expansions' = expansions + 1
    /\ UNCHANGED <<grammar, opts, rules, rngPos, drawLog, gpc, stack, genResult,
                   run, first>>
    /\ UNCHANGED rvars
    /\ UNCHANGED cvars
    /\ UNCHANGED evars

\* Production.Gen: the rule is entered, try := 0
ProdEnter ==
    /\ gpc = "gen" /\ ctl.m = "prod"
    /\ ~DepthExhausted(ctl.depth)
    /\ stack' = Append(stack, ProdFrame(ctl.name, ctl.depth, 0))
    /\ ctl' = [m |-> "loop"]
    /\ expansions' = expansions + 1
    /\ UNCHANGED <<grammar, opts, rules, rngPos, drawLog, gpc, genResult, run,
                   first>>
    /\ UNCHANGED rvars
    /\ UNCHANGED cvars
    /\ UNCHANGED evars

\* Production.Gen: one pass of the loop body up to the nested Gen call
ProdSelect ==
    /\ gpc = "gen" /\ ctl.m = "loop"
    /\ HasTryLeft(Top.try, opts)
    /\ LET prod == rules[Top.name]
           alts == grammar[prod.idx].alts
           d == Float64(opts.Seed, rngPos)
           aNo == SelectAlternative(prod, d, Len(alts))
       IN  /\ ctl' = CallGen(alts[aNo + 1].alt, Top.depth - 1)
           /\ drawLog' = Append(drawLog, d)
    /\ rngPos' = rngPos + 1
    /\ UNCHANGED <<grammar, opts, rules, gpc, stack, expansions, genResult, run,
                   first>>
    /\ UNCHANGED rvars
    /\ UNCHANGED cvars
    /\ UNCHANGED evars

\* Production.Gen: the loop condition fails
ProdExhausted ==
    /\ gpc = "gen" /\ ctl.m = "loop"
    /\ ~HasTryLeft(Top.try, opts)
    /\ stack' = Pop
    /\ ctl' = Ret(NilNode, ErrReachedMaxGenerationTries)
    /\ UNCHANGED <<grammar, opts, rules, rngPos, drawLog, gpc, expansions,
                   genResult, run, first>>
    /\ UNCHANGED rvars
    /\ UNCHANGED cvars
    /\ UNCHANGED evars

\* Production.Gen: the nested Gen call returned, err == nil
ProdChildOk ==
    /\ gpc = "gen" /\ ctl.m = "ret" /\ stack # <<>> /\ Top.f = "prod"
    /\ ctl.err = NoErr
    /\ stack' = Pop
    /\ UNCHANGED <<grammar, opts, rules, rngPos, drawLog, gpc, ctl, expansions,
                   genResult, run, first>>
    /\ UNCHANGED rvars
    /\ UNCHANGED cvars
    /\ UNCHANGED evars

\* Production.Gen: the nested Gen call failed with ErrRuleDoesNotExist
ProdChildFatal ==
    /\ gpc = "gen" /\ ctl.m = "ret" /\ stack # <<>> /\ Top.f = "prod"
    /\ ctl.err # NoErr /\ IsFatal(ctl.err)
    /\ stack' = Pop
    /\ ctl' = Ret(NilNode, ctl.err)
    /\ UNCHANGED <<grammar, opts, rules, rngPos, drawLog, gpc, expansions,
                   genResult, run, first>>
    /\ UNCHANGED rvars
    /\ UNCHANGED cvars
    /\ UNCHANGED evars

\* Production.Gen: the nested Gen call failed with another error, try++
ProdChildRetry ==
    /\ gpc = "gen" /\ ctl.m = "ret" /\ stack # <<>> /\ Top.f = "prod"
    /\ ctl.err # NoErr /\ ~IsFatal(ctl.err)
    /\ stack' = [stack EXCEPT ![Len(stack)].try = @ + 1]
    /\ ctl' = [m |-> "loop"]
    /\ UNCHANGED <<grammar, opts, rules, rngPos, drawLog, gpc, expansions,
                   genResult, run, first>>
    /\ UNCHANGED rvars
    /\ UNCHANGED cvars
    /\ UNCHANGED evars

\* Number.Gen, Bool.Gen, Component.Gen
GenLeaf ==
    /\ gpc = "gen" /\ ctl.m = "gen"
    /\ ctl.tpl.t \in {"num", "bool", "comp"}
    /\ ctl' = Ret(LeafNode(ctl.tpl), NoErr)
    /\ UNCHANGED <<grammar, opts, rules, rngPos, drawLog, gpc, stack, expansions,
                   genResult, run, first>>
    /\ UNCHANGED rvars
    /\ UNCHANGED cvars
    /\ UNCHANGED evars

\* Random.Gen
GenRandom ==
    /\ gpc = "gen" /\ ctl.m = "gen"
    /\ ctl.tpl.t = "rand"
    /\ LET d == Float64(opts.Seed, rngPos)
       IN  /\ ctl' = Ret(RandomNode(d), NoErr)
           /\ drawLog' = Append(drawLog, d)
    /\ rngPos' = rngPos + 1
    /\ UNCHANGED <<grammar, opts, rules, gpc, stack, expansions, genResult, run,
                   first>>
    /\ UNCHANGED rvars
    /\ UNCHANGED cvars
    /\ UNCHANGED evars

\* Rule.Gen: the name is not in state.rules
GenRuleMissing ==
    /\ gpc = "gen" /\ ctl.m = "gen"
    /\ ctl.tpl.t = "rule"
    /\ ctl.tpl.name \notin DOMAIN rules
    /\ ctl' = Ret(NilNode, ErrRuleDoesNotExist)
    /\ UNCHANGED <<grammar, opts, rules, rngPos, drawLog, gpc, stack, expansions,
                   genResult, run, first>>
    /\ UNCHANGED rvars
    /\ UNCHANGED cvars
    /\ UNCHANGED evars

\* Rule.Gen: return rule.Gen(state, depth)
GenRuleCall ==
    /\ gpc = "gen" /\ ctl.m = "gen"
    /\ ctl.tpl.t = "rule"
    /\ ctl.tpl.name \in DOMAIN rules
    /\ ctl' = CallProd(ctl.tpl.name, ctl.depth)
    /\ UNCHANGED <<grammar, opts, rules, rngPos, drawLog, gpc, stack, expansions,
                   genResult, run, first>>
    /\ UNCHANGED rvars
    /\ UNCHANGED cvars
    /\ UNCHANGED evars

\* Func.Gen, Triplet.Gen, IfThenElse.Gen: the first sub-template is generated
GenNodeEnter ==
    /\ gpc = "gen" /\ ctl.m = "gen"
    /\ ctl.tpl.t \in {"func", "triplet", "ite"}
    /\ stack' = Append(stack, NodeFrame(ctl.tpl, ctl.depth, <<>>))
    /\ ctl' = CallGen(ctl.tpl.kids[1], ctl.depth)
    /\ UNCHANGED <<grammar, opts, rules, rngPos, drawLog, gpc, expansions,
                   genResult, run, first>>
    /\ UNCHANGED rvars
    /\ UNCHANGED cvars
    /\ UNCHANGED evars

\* Func.Gen, Triplet.Gen, IfThenElse.Gen: a sub-template failed
GenNodeChildErr ==
    /\ gpc = "gen" /\ ctl.m = "ret" /\ stack # <<>> /\ Top.f = "node"
    /\ ctl.err # NoErr
    /\ stack' = Pop
    /\ ctl' = Ret(NilNode, ctl.err)
    /\ UNCHANGED <<grammar, opts, rules, rngPos, drawLog, gpc, expansions,
                   genResult, run, first>>
    /\ UNCHANGED rvars
    /\ UNCHANGED cvars
    /\ UNCHANGED evars

\* Func.Gen, Triplet.Gen, IfThenElse.Gen: a sub-template is done, the next
\* one is generated
GenNodeNext ==
    /\ gpc = "gen" /\ ctl.m = "ret" /\ stack # <<>> /\ Top.f = "node"
    /\ ctl.err = NoErr
    /\ Len(Top.got) + 1 < Len(Top.tpl.kids)
    /\ stack' = [stack EXCEPT ![Len(stack)].got = Append(@, ctl.node)]
    /\ ctl' = CallGen(Top.tpl.kids[Len(Top.got) + 2], Top.depth)
    /\ UNCHANGED <<grammar, opts, rules, rngPos, drawLog, gpc, expansions,
                   genResult, run, first>>
    /\ UNCHANGED rvars
    /\ UNCHANGED cvars
    /\ UNCHANGED evars

\* Func.Gen, Triplet.Gen, IfThenElse.Gen: the last sub-template is done
GenNodeDone ==
    /\ gpc = "gen" /\ ctl.m = "ret" /\ stack # <<>> /\ Top.f = "node"
    /\ ctl.err = NoErr
    /\ Len(Top.got) + 1 = Len(Top.tpl.kids)
    /\ stack' = Pop
    /\ ctl' = Ret(BuildNode(Top.tpl, Append(Top.got, ctl.node)), NoErr)
    /\ UNCHANGED <<grammar, opts, rules, rngPos, drawLog, gpc, expansions,
                   genResult, run, first>>
    /\ UNCHANGED rvars
    /\ UNCHANGED cvars
    /\ UNCHANGED evars

\* Grammar.Gen: return node, s, err
GenReturn ==
    /\ gpc = "gen" /\ ctl.m = "ret" /\ stack = <<>>
    /\ genResult' = [node |-> ctl.node, err |-> ctl.err]
    /\ gpc' = "done"
    /\ ctl' = [m |-> "idle"]
    /\ UNCHANGED <<grammar, opts, rules, rngPos, drawLog, stack, expansions, run,
                   first>>
    /\ UNCHANGED rvars
    /\ UNCHANGED cvars
    /\ UNCHANGED evars

\* the caller keeps s.Options() and calls Gen on the same *Grammar again,
\* with FromJSON of that text
Replay ==
    /\ gpc = "done" /\ run = 1
    /\ first' = [result |-> genResult, draws |-> drawLog, calls |-> expansions,
                 options |-> Options(opts)]
    /\ opts' = FromJSON(Options(opts))
    /\ run' = 2
    /\ gpc' = "start"
    /\ expansions' = 0
    /\ genResult' = [node |-> NilNode, err |-> NoErr]
    /\ UNCHANGED <<grammar, rules, rngPos, drawLog, stack, ctl>>
    /\ UNCHANGED rvars
    /\ UNCHANGED cvars
    /\ UNCHANGED evars

NextGen ==
    \/ GenRejected
    \/ GenResolved
    \/ ProdMaxDepth
    \/ ProdEnter
    \/ ProdSelect
    \/ ProdExhausted
    \/ ProdChildOk
    \/ ProdChildFatal
    \/ ProdChildRetry
    \/ GenLeaf
    \/ GenRandom
    \/ GenRuleMissing
    \/ GenRuleCall
    \/ GenNodeEnter
    \/ GenNodeChildErr
    \/ GenNodeNext
    \/ GenNodeDone
    \/ GenReturn
    \/ Replay

----------------------------------------------------------------------------
(***************************************************************************)
(* package nodes: the coordinate state and the value-level checks          *)
(***************************************************************************)
\* one axis of S: float64(i)/float64(n-1)*2 - 1
Axis(i, n) == opSub(opMul(opDiv(Float(i, 1), Float(n - 1, 1)), Float(2, 1)), Float(1, 1))

\* float64(c)/0xFFFF*2 - 1 for a channel of color.White
White == opSub(opMul(opDiv(Float(65535, 1), Float(65535, 1)), Float(2, 1)), Float(1, 1))

\* S(x, y, width, height, frame, frames, src) with the default source image
CoordState(x, y, width, height, frame, nframes) ==
    [X |-> Axis(x, width), Y |-> Axis(y, height), F |-> Axis(frame, nframes),
     R |-> White, G |-> White, B |-> White]

\* State.component
component(s, c) ==
    CASE c = "x" -> s.X
      [] c = "y" -> s.Y
      [] c = "f" -> s.F
      [] c = "r" -> s.R
      [] c = "g" -> s.G
      [] c = "b" -> s.B

NoError == [is |-> "nil"]

ValidationError(node, is) == [is |-> is, node |-> node]

NotHandled(o) == [is |-> "handled", o |-> o]

\* isNumber: the error, nil for a *value[float64]
isNumber(n) == IF n.n = "num" THEN NoError ELSE ValidationError(n, "number")

\* isBoolean: the error, nil for a *value[bool]
isBoolean(n) == IF n.n = "bool" THEN NoError ELSE ValidationError(n, "boolean")

ApplyNumeric(o, l, r) == NumberValue(opSub(l, r))

\* the two switches of op.Eval on two numbers
Apply(o, l, r) ==
    CASE o = "add" -> NumberValue(opAdd(l, r))
      [] o = "sub" -> NumberValue(opSub(l, r))
      [] o = "mul" -> NumberValue(opMul(l, r))
      [] o = "div" -> NumberValue(opDiv(l, r))
      [] o = "mod" -> NumberValue(opMod(l, r))
      [] o = "gt" -> BooleanValue(opGt(l, r))
      [] o = "ge" -> BooleanValue(opGe(l, r))
      [] o = "lt" -> BooleanValue(opLt(l, r))
      [] o = "le" -> BooleanValue(opLe(l, r))
      [] OTHER -> NilNode

ERet(node, err) == [m |-> "ret", node |-> node, err |-> err]

ECall(path) == [m |-> "eval", path |-> path]

\* op.Eval once left and right are evaluated
opEval(o, left, right) ==
    IF isNumber(left) # NoError THEN ERet(NilNode, isNumber(left))
    ELSE IF isNumber(right) # NoError THEN ERet(NilNode, isNumber(right))
    ELSE IF Apply(o, left.v, right.v) = NilNode THEN ERet(NilNode, NotHandled(o))
    ELSE ERet(Apply(o, left.v, right.v), NoError)

BranchSwapped(c) == IF c THEN 3 ELSE 2

\* ifThenElse.Eval: if c { i.then } else { i.otherwise }, as child positions
Branch(c) == IF c THEN 2 ELSE 3

\* uint8(t): the integer part of t; for a t that no uint8 holds (NaN, an
\* infinity, t <= -1, t >= 256) the value the build's conversion gives for t
Uint8(t) ==
    IF t.k = "fin" /\ t.m \div t.d < 256 /\ (~t.neg \/ t.m \div t.d = 0)
    THEN [byte |-> t.m \div t.d]
    ELSE [impl |-> t]

\* uint8((v + 1) / 2 * 255)
Channel(v) == Uint8(opMul(opDiv(opAdd(v, Float(1, 1)), Float(2, 1)), Float(255, 1)))

NoColor == [nil |-> TRUE]

RGBA(r, g, b) == [R |-> Channel(r), G |-> Channel(g), B |-> Channel(b), A |-> [byte |-> 255]]

\* IsRoot: the error, nil for a triple of three numbers
IsRoot(n) ==
    IF n.n # "triple" THEN ValidationError(n, "triple")
    ELSE IF isNumber(n.kids[1]) # NoError THEN isNumber(n.kids[1])
    ELSE IF isNumber(n.kids[2]) # NoError THEN isNumber(n.kids[2])
    ELSE isNumber(n.kids[3])

renderPointGrey(node, err) ==
    IF err # NoError THEN [color |-> NoColor, err |-> err]
    ELSE IF node.n = "num" THEN [color |-> RGBA(node.v, node.v, node.v), err |-> NoError]
    ELSE IF IsRoot(node) # NoError THEN [color |-> NoColor, err |-> IsRoot(node)]
    ELSE [color |-> RGBA(node.kids[1].v, node.kids[2].v, node.kids[3].v),
          err |-> NoError]

\* renderPoint once root.Eval(s) has returned
renderPoint(node, err) ==
    IF err # NoError THEN [color |-> NoColor, err |-> err]
    ELSE IF IsRoot(node) # NoError THEN [color |-> NoColor, err |-> IsRoot(node)]
    ELSE [color |-> RGBA(node.kids[1].v, node.kids[2].v, node.kids[3].v),
          err |-> NoError]

\* the node of the tree that a chain of child positions leads to
RECURSIVE NodeAt(_, _)
NodeAt(tree, path) ==
    IF path = <<>> THEN tree ELSE NodeAt(tree.kids[Head(path)], Tail(path))

(***************************************************************************)
(* package render and nodes: renderPoint and Eval as a machine. Two calls   *)
(* of renderPoint run on the generated tree with equal states, in any      *)
(* interleaving: one after the other or at the same time                   *)
(***************************************************************************)
MaxDim == 2

Calls == {1, 2}

NoOut == [none |-> TRUE]

\* i, n: a position on an axis of n elements
AxisPoints == {a \in (0..(MaxDim - 1)) \X (1..MaxDim) : a[1] < a[2]}

\* the states S builds for the points of renders of up to MaxDim columns,
\* rows and frames
CoordStates ==
    {CoordState(ax[1], ay[1], ax[2], ay[2], af[1], af[2]) :
        ax \in AxisPoints, ay \in AxisPoints, af \in AxisPoints}

EIdle == [m |-> "idle"]

ZeroState == CoordState(0, 0, 2, 2, 0, 2)

EvalIdle ==
    /\ est = ZeroState
    /\ ectl = [e \in Calls |-> EIdle]
    /\ estack = [e \in Calls |-> <<>>]
    /\ eout = [e \in Calls |-> NoOut]
    /\ etrace = [e \in Calls |-> <<>>]

Root == genResult.node

ENode(e) == NodeAt(Root, ectl[e].path)

ETop(e) == estack[e][Len(estack[e])]

EPop(e) == SubSeq(estack[e], 1, Len(estack[e]) - 1)

ETopNode(e) == NodeAt(Root, ETop(e).path)

Evaluating(e) == ectl[e].m = "eval"

Returning(e) == ectl[e].m = "ret" /\ estack[e] # <<>>

\* the raster loop reaches a point: nodes.S(...) is built and two calls of
\* renderPoint(root, s) begin
PointStart ==
    /\ gpc = "done" /\ genResult.err = NoErr
    /\ \A e \in Calls : ectl[e].m = "idle" /\ eout[e] = NoOut
    /\ est' \in CoordStates
    /\ ectl' = [e \in Calls |-> ECall(<<>>)]
    /\ etrace' = [e \in Calls |-> <<>>]
    /\ UNCHANGED <<estack, eout>>
    /\ UNCHANGED gvars
    /\ UNCHANGED rvars
    /\ UNCHANGED cvars

\* value.Eval: return v, nil
EvalValue(e) ==
    /\ Evaluating(e) /\ ENode(e).n \in {"num", "bool"}
    /\ ectl' = [ectl EXCEPT ![e] = ERet(ENode(e), NoError)]
    /\ etrace' = [etrace EXCEPT ![e] = Append(@, ectl[e].path)]
    /\ UNCHANGED <<est, estack, eout>>
    /\ UNCHANGED gvars
    /\ UNCHANGED rvars
    /\ UNCHANGED cvars

\* the tree with the node at the end of path replaced
RECURSIVE ReplaceAt(_, _, _)
ReplaceAt(tree, path, node) ==
    IF path = <<>> THEN node
    ELSE [tree EXCEPT !.kids[Head(path)] = ReplaceAt(@, Tail(path), node)]

EvalComponentInPlace(e) ==
    /\ Evaluating(e) /\ ENode(e).n = "comp"
    /\ ectl' = [ectl EXCEPT ![e] = ERet(NumberValue(component(est, ENode(e).c)), NoError)]
    /\ etrace' = [etrace EXCEPT ![e] = Append(@, ectl[e].path)]
    /\ genResult' = [genResult EXCEPT !.node =
           ReplaceAt(@, ectl[e].path, NumberValue(component(est, ENode(e).c)))]
    /\ UNCHANGED <<est, estack, eout>>
    /\ UNCHANGED <<grammar, opts, rules, rngPos, drawLog, gpc, stack, ctl,
                   expansions, run, first>>
    /\ UNCHANGED rvars
    /\ UNCHANGED cvars

\* component.Eval: a new value with the component of the state
EvalComponent(e) ==
    /\ Evaluating(e) /\ ENode(e).n = "comp"
    /\ ectl' = [ectl EXCEPT ![e] = ERet(NumberValue(component(est, ENode(e).c)), NoError)]
    /\ etrace' = [etrace EXCEPT ![e] = Append(@, ectl[e].path)]
    /\ UNCHANGED <<est, estack, eout>>
    /\ UNCHANGED gvars
    /\ UNCHANGED rvars
    /\ UNCHANGED cvars

\* op.Eval, triple.Eval, ifThenElse.Eval: the first child is evaluated
EvalEnter(e) ==
    /\ Evaluating(e) /\ ENode(e).n \in {"op", "triple", "ite"}
    /\ estack' = [estack EXCEPT ![e] = Append(@, [path |-> ectl[e].path, got |-> <<>>])]
    /\ ectl' = [ectl EXCEPT ![e] = ECall(Append(ectl[e].path, 1))]
    /\ etrace' = [etrace EXCEPT ![e] = Append(@, ectl[e].path)]
    /\ UNCHANGED <<est, eout>>
    /\ UNCHANGED gvars
    /\ UNCHANGED rvars
    /\ UNCHANGED cvars

\* op.Eval, triple.Eval, ifThenElse.Eval: if err != nil { return nil, err }
EvalChildErr(e) ==
    /\ Returning(e) /\ ectl[e].err # NoError
    /\ estack' = [estack EXCEPT ![e] = EPop(e)]
    /\ ectl' = [ectl EXCEPT ![e] = ERet(NilNode, ectl[e].err)]
    /\ UNCHANGED <<est, eout, etrace>>
    /\ UNCHANGED gvars
    /\ UNCHANGED rvars
    /\ UNCHANGED cvars

\* op.Eval, triple.Eval: the next child is evaluated
EvalNextChild(e) ==
    /\ Returning(e) /\ ectl[e].err = NoError
    /\ ETopNode(e).n \in {"op", "triple"}
    /\ Len(ETop(e).got) + 1 < Len(ETopNode(e).kids)
    /\ estack' = [estack EXCEPT ![e][Len(estack[e])].got = Append(@, ectl[e].node)]
    /\ ectl' = [ectl EXCEPT ![e] = ECall(Append(ETop(e).path, Len(ETop(e).got) + 2))]
    /\ UNCHANGED <<est, eout, etrace>>
    /\ UNCHANGED gvars
    /\ UNCHANGED rvars
    /\ UNCHANGED cvars

\* op.Eval: isNumber(left), isNumber(right), the operator, the new value
OpApply(e) ==
    /\ Returning(e) /\ ectl[e].err = NoError
    /\ ETopNode(e).n = "op"
    /\ Len(ETop(e).got) = 1
    /\ estack' = [estack EXCEPT ![e] = EPop(e)]
    /\ ectl' = [ectl EXCEPT ![e] = opEval(ETopNode(e).o, ETop(e).got[1], ectl[e].node)]
    /\ UNCHANGED <<est, eout, etrace>>
    /\ UNCHANGED gvars
    /\ UNCHANGED rvars
    /\ UNCHANGED cvars

\* triple.Eval: return &triple{...}, nil
TripleBuild(e) ==
    /\ Returning(e) /\ ectl[e].err = NoError
    /\ ETopNode(e).n = "triple"
    /\ Len(ETop(e).got) = 2
    /\ estack' = [estack EXCEPT ![e] = EPop(e)]
    /\ ectl' = [ectl EXCEPT ![e] = ERet(TripleNode(Append(ETop(e).got, ectl[e].node)), NoError)]
    /\ UNCHANGED <<est, eout, etrace>>
    /\ UNCHANGED gvars
    /\ UNCHANGED rvars
    /\ UNCHANGED cvars

\* ifThenElse.Eval: isBoolean(cond) fails
IteNotBoolean(e) ==
    /\ Returning(e) /\ ectl[e].err = NoError
    /\ ETopNode(e).n = "ite"
    /\ isBoolean(ectl[e].node) # NoError
    /\ estack' = [estack EXCEPT ![e] = EPop(e)]
    /\ ectl' = [ectl EXCEPT ![e] = ERet(NilNode, isBoolean(ectl[e].node))]
    /\ UNCHANGED <<est, eout, etrace>>
    /\ UNCHANGED gvars
    /\ UNCHANGED rvars
    /\ UNCHANGED cvars

\* ifThenElse.Eval: return i.then.Eval(state) or return i.otherwise.Eval(state)
IteBranch(e) ==
    /\ Returning(e) /\ ectl[e].err = NoError
    /\ ETopNode(e).n = "ite"
    /\ isBoolean(ectl[e].node) = NoError
    /\ estack' = [estack EXCEPT ![e] = EPop(e)]
    /\ ectl' = [ectl EXCEPT ![e] =
                   ECall(Append(ETop(e).path, Branch(ectl[e].node.b)))]
    /\ UNCHANGED <<est, eout, etrace>>
    /\ UNCHANGED gvars
    /\ UNCHANGED rvars
    /\ UNCHANGED cvars

\* renderPoint: root.Eval returned; IsRoot and the color
PointDone(e) ==
    /\ ectl[e].m = "ret" /\ estack[e] = <<>>
    /\ eout' = [eout EXCEPT ![e] = renderPoint(ectl[e].node, ectl[e].err)]
    /\ ectl' = [ectl EXCEPT ![e] = EIdle]
    /\ UNCHANGED <<est, estack, etrace>>
    /\ UNCHANGED gvars
    /\ UNCHANGED rvars
    /\ UNCHANGED cvars

\* both calls have returned; the raster loop goes on
PointNext ==
    /\ \A e \in Calls : eout[e] # NoOut
    /\ eout' = [e \in Calls |-> NoOut]
    /\ UNCHANGED <<est, ectl, estack, etrace>>
    /\ UNCHANGED gvars
    /\ UNCHANGED rvars
    /\ UNCHANGED cvars

EvalStep(e) ==
    \/ EvalValue(e)
    \/ EvalComponent(e)
    \/ EvalEnter(e)
    \/ EvalChildErr(e)
    \/ EvalNextChild(e)
    \/ OpApply(e)
    \/ TripleBuild(e)
    \/ IteNotBoolean(e)
    \/ IteBranch(e)
    \/ PointDone(e)

NextEval ==
    \/ GenRejected
    \/ GenResolved
    \/ ProdMaxDepth
    \/ ProdEnter
    \/ ProdSelect
    \/ ProdExhausted
    \/ ProdChildOk
    \/ ProdChildFatal
    \/ ProdChildRetry
    \/ GenLeaf
    \/ GenRandom
    \/ GenRuleMissing
    \/ GenRuleCall
    \/ GenNodeEnter
    \/ GenNodeChildErr
    \/ GenNodeNext
    \/ GenNodeDone
    \/ GenReturn
    \/ PointStart
    \/ \E e \in Calls : EvalValue(e)
    \/ \E e \in Calls : EvalComponent(e)
    \/ \E e \in Calls : EvalEnter(e)
    \/ \E e \in Calls : EvalChildErr(e)
    \/ \E e \in Calls : EvalNextChild(e)
    \/ \E e \in Calls : OpApply(e)
    \/ \E e \in Calls : TripleBuild(e)
    \/ \E e \in Calls : IteNotBoolean(e)
    \/ \E e \in Calls : IteBranch(e)
    \/ \E e \in Calls : PointDone(e)
    \/ PointNext

\* no render is running while the generator is observed
RenderIdle ==
    /\ frames = 1
    /\ badFrames = {}
    /\ ctxDone = FALSE
    /\ cancelCalled = FALSE
    /\ jobs = <<>>
    /\ jobsClosed = FALSE
    /\ results = <<>>
    /\ resultsClosed = FALSE
    /\ wIdle = 0
    /\ wProc = {}
    /\ wSend = {}
    /\ wExited = 0
    /\ rendered = <<>>
    /\ dNext = 0
    /\ dpc = "idle"
    /\ pc = "idle"
    /\ expectedFrame = 0
    /\ buf = <<>>
    /\ yielded = <<>>
    /\ consumerStopped = FALSE
    /\ panicked = FALSE
    /\ caller = "idle"
    /\ frameNo = 0
    /\ callbacks = <<>>
    /\ ret = NoRet

GenInit == InitGen /\ RenderIdle /\ EvalIdle

GenSpec == GenInit /\ [][NextGen]_vars

\* generation with the largest depth and try budget, then evaluation
EvalInit == GenInit /\ opts.MaxDepth = MaxDepthBound /\ opts.MaxGenerationTries = MaxTriesBound

EvalSpec == EvalInit /\ [][NextEval]_vars

GenIdle ==
    /\ grammar = <<>>
    /\ opts = [Seed |-> 0, MaxDepth |-> 0, MaxGenerationTries |-> 0]
    /\ rules = <<>>
    /\ rngPos = 0
    /\ drawLog = <<>>
    /\ gpc = "idle"
    /\ stack = <<>>
    /\ ctl = [m |-> "idle"]
    /\ expansions = 0
    /\ genResult = [node |-> [n |-> "nil"], err |-> "nil"]
    /\ run = 0
    /\ first = <<>>

Init == InitRender /\ GenIdle /\ EvalIdle

Next == NextRender

Spec == Init /\ [][Next]_vars

\* renders in which at most one frame fails
FairInit == Init /\ Cardinality(badFrames) <= 1

\* the Go scheduler runs every goroutine that can take a step; nobody is
\* obliged to cancel the context
FairSpec ==
    /\ FairInit
    /\ [][Next]_vars
    /\ WF_vars(WorkerStep)
    /\ WF_vars(DispatcherStep)
    /\ WF_vars(MainStep)

----------------------------------------------------------------------------
(***************************************************************************)
(* Properties of the frame pipeline                                        *)
(***************************************************************************)
Images == SelectSeq(yielded, LAMBDA it : it.kind = "img")

Errors == SelectSeq(yielded, LAMBDA it : it.kind = "err")

AllFrames == [k \in 1..frames |-> ImgItem(ImageOf(k - 1))]

Returned == pc = "returned"

\* C1: the k-th image handed to the consumer (counting from 0) is the image
\* computed for frame index k, whatever the order in which the workers finish.
C1_AscendingNoGaps ==
    \A k \in 1..Len(Images) : Images[k].v = ImageOf(k - 1)

\* a result for a later frame overtook the one for frame 1 and waits in the
\* buffer, after the image of frame 0 has been handed over
C1_Witness ==
    /\ Images = <<ImgItem(ImageOf(0))>>
    /\ buf # <<>>
    /\ buf[1].frame > expectedFrame

\* C2: with no cancellation, no failing pixel and a consumer that keeps
\* pulling, every frame index 0..frames-1 is rendered at most once, yielded at
\* most once, and eventually frames() has yielded all of them and returned.
C2_AllFramesOnceThenReturn ==
    /\ [](\A f \in 0..(frames - 1) : rendered[f] <= 1)
    /\ [](\A i, j \in 1..Len(Images) : Images[i].v = Images[j].v => i = j)
    /\ <>(\/ ctxDone
          \/ consumerStopped
          \/ badFrames # {}
          \/ (Returned /\ yielded = AllFrames))

\* all frames of a three frame render came out and the call returned
C2_Witness ==
    /\ Returned /\ frames = 3 /\ yielded = AllFrames
    /\ ~ctxDone /\ ~consumerStopped /\ badFrames = {}

\* C3: once the reassembly stage has taken a result that carries an error,
\* that error is what it yields, it yields nothing after it, and it leaves the
\* loop; images that were held in the buffer stay there.
C3_ErrorIsLast ==
    [][/\ (pc = "loop" /\ results # <<>> /\ Head(results).err
              /\ results' = Tail(results))
           => (/\ yielded' = Append(yielded, ErrItem(Head(results).frame))
               /\ pc' = "stop")
       /\ (Errors # <<>>) => (yielded' = yielded)]_vars

\* an error was yielded while the image of a later frame sat in the buffer
C3_Witness ==
    /\ Errors # <<>>
    /\ yielded[Len(yielded)].v # NoFrame
    /\ buf # <<>>
    /\ Returned

\* C4: when frames() returns, the pool is cancelled, both channels are closed
\* and every goroutine it started, the dispatcher included, has exited.
C4_NoGoroutineLeft ==
    Returned =>
        /\ cancelCalled
        /\ jobsClosed
        /\ resultsClosed
        /\ wExited = Workers
        /\ dpc = "exited"

\* C5: once the caller's context is cancelled, frames() eventually returns
\* with every worker exited.
C5_CancelLeadsToReturn ==
    ctxDone ~> (Returned /\ wExited = Workers)

----------------------------------------------------------------------------
(***************************************************************************)
(* Properties of the generator                                             *)
(***************************************************************************)
GenDone == gpc = "done"

ProdFrames == SelectSeq(stack, LAMBDA fr : fr.f = "prod")

\* the rule names a template refers to
RECURSIVE RuleRefs(_)
RuleRefs(tpl) ==
    CASE tpl.t = "rule" -> {tpl.name}
      [] tpl.t \in {"func", "triplet", "ite"} ->
            UNION {RuleRefs(tpl.kids[i]) : i \in 1..Len(tpl.kids)}
      [] OTHER -> {}

ProdRefs(p) == UNION {RuleRefs(p.alts[i].alt) : i \in 1..Len(p.alts)}

Names(g) == {g[i].name : i \in 1..Len(g)}

HasDuplicateName(g) == \E i, j \in 1..Len(g) : i # j /\ g[i].name = g[j].name

RECURSIVE SumProb(_)
SumProb(alts) ==
    IF alts = <<>> THEN 0 ELSE alts[1].prob + SumProb(Tail(alts))

Overweight(g) == \E i \in 1..Len(g) : SumProb(g[i].alts) > WeightDen

AllRefsDefined(g) == \A i \in 1..Len(g) : ProdRefs(g[i]) \subseteq Names(g)

ProdNamed(g, name) == g[CHOOSE i \in 1..Len(g) : g[i].name = name]

SetMax(ns) == IF ns = {} THEN 0 ELSE CHOOSE n \in ns : \A k \in ns : k <= n

Unbounded == MaxDepthBound + 1

\* the longest chain of nested rule expansions that starts at the rule name;
\* a chain longer than the number of rules goes round a cycle
RECURSIVE ChainFrom(_, _, _)
ChainFrom(g, name, fuel) ==
    IF fuel = 0 THEN Unbounded
    ELSE 1 + SetMax({ChainFrom(g, r, fuel - 1) : r \in ProdRefs(ProdNamed(g, name))})

LongestChain(g) == ChainFrom(g, g[1].name, Len(g) + 1)

\* T^0 + T^1 + ... + T^d
RECURSIVE GeomSum(_, _)
GeomSum(t, d) == IF d <= 0 THEN 1 ELSE 1 + t * GeomSum(t, d - 1)

\* every alternative of every rule refers to a rule, and only to its own
SelfRecursiveOnly(g) ==
    /\ ~HasDuplicateName(g)
    /\ ~Overweight(g)
    /\ \A i \in 1..Len(g) : \A k \in 1..Len(g[i].alts) :
           RuleRefs(g[i].alts[k].alt) = {g[i].name}

\* C6: a second call of Grammar.Gen on the same grammar, with the options the
\* first call emitted, draws the same values and returns the same tree or
\* the same error, and emits the same options.
C6_ReplayIsIdentical ==
    (GenDone /\ run = 2) =>
        /\ genResult = first.result
        /\ drawLog = first.draws
        /\ expansions = first.calls
        /\ Options(opts) = first.options

\* a replayed run that retried a rule, drew an odd number of values and
\* returned a tree
C6_Witness ==
    /\ GenDone /\ run = 2
    /\ genResult.err = NoErr
    /\ Len(drawLog) % 2 = 1
    /\ expansions >= 2

\* C7: an undefined-rule error goes up through every waiting Gen call without
\* a draw and ends the generation; any other error makes the rule count the
\* try and go back to its selection step; a rule selects only while it has
\* made fewer than MaxGenerationTries selections, and otherwise returns the
\* max-generation-tries error.
C7_RetryPolicy ==
    /\ [](\A i \in 1..Len(stack) :
            stack[i].f = "prod" =>
                /\ stack[i].try <= opts.MaxGenerationTries
                /\ (i < Len(stack) \/ ctl.m # "loop")
                       => stack[i].try < opts.MaxGenerationTries)
    /\ [][/\ (gpc = "gen" /\ ctl.m = "ret" /\ ctl.err = ErrRuleDoesNotExist) =>
                /\ rngPos' = rngPos
                /\ IF stack = <<>>
                   THEN genResult' = [node |-> NilNode, err |-> ErrRuleDoesNotExist]
                   ELSE stack' = Pop /\ ctl' = ctl
          /\ (/\ gpc = "gen" /\ ctl.m = "ret" /\ stack # <<>> /\ Top.f = "prod"
              /\ ctl.err \notin {NoErr, ErrRuleDoesNotExist}) =>
                /\ ctl'.m = "loop"
                /\ stack' = [stack EXCEPT ![Len(stack)].try = @ + 1]
                /\ rngPos' = rngPos
          /\ (gpc = "gen" /\ ctl.m = "loop") =>
                IF Top.try < opts.MaxGenerationTries
                THEN rngPos' = rngPos + 1 /\ ctl'.m = "gen" /\ stack' = stack
                ELSE /\ ctl' = Ret(NilNode, ErrReachedMaxGenerationTries)
                     /\ stack' = Pop /\ rngPos' = rngPos]_vars

\* an undefined-rule error on its way up through two rules, the inner one on
\* its second try
C7_Witness ==
    /\ gpc = "gen" /\ ctl.m = "ret" /\ ctl.err = ErrRuleDoesNotExist
    /\ Len(ProdFrames) >= 2
    /\ Top.f = "prod" /\ Top.try >= 1

\* C8 as stated: a grammar of self-recursive rules never nests rule
\* expansions deeper than MaxDepth, enters a bounded number of rules and
\* fails with the max-depth error.
C8_FailsWithMaxDepth ==
    SelfRecursiveOnly(grammar) =>
        /\ Len(ProdFrames) <= opts.MaxDepth
        /\ expansions <= GeomSum(opts.MaxGenerationTries, opts.MaxDepth)
        /\ GenDone => genResult.err = ErrReachedMaxDepth

\* C8 as amended: the same bounds, a step is possible until Grammar.Gen has
\* returned, and the error is the max-depth error only for MaxDepth <= 0; for
\* MaxDepth >= 1 it is the max-generation-tries error.
C8_FailsBounded ==
    SelfRecursiveOnly(grammar) =>
        /\ Len(ProdFrames) <= opts.MaxDepth
        /\ expansions <= GeomSum(opts.MaxGenerationTries, opts.MaxDepth)
        /\ GenDone \/ ENABLED NextGen
        /\ GenDone =>
              /\ genResult.node = NilNode
              /\ genResult.err = IF opts.MaxDepth <= 0
                                 THEN ErrReachedMaxDepth
                                 ELSE ErrReachedMaxGenerationTries

\* a self-recursive grammar failed after the full number of rule entries,
\* 1 + 2 + 4
C8_Witness ==
    /\ SelfRecursiveOnly(grammar) /\ GenDone
    /\ opts.MaxDepth = 2 /\ opts.MaxGenerationTries = 2
    /\ expansions = GeomSum(2, 2)
    /\ genResult.err = ErrReachedMaxGenerationTries

C9_Hypothesis ==
    /\ ~HasDuplicateName(grammar)
    /\ AllRefsDefined(grammar)
    /\ ~Overweight(grammar)
    /\ LongestChain(grammar) <= opts.MaxDepth
    /\ opts.MaxGenerationTries >= 1

\* C9: for a grammar with unique rule names, every reference defined, weights
\* of at most 1 per rule and no chain of nested rules longer than MaxDepth,
\* and at least one try, every rule succeeds on its first selection, no Gen
\* call returns an error and Grammar.Gen returns a node.
C9_SucceedsFirstTry ==
    C9_Hypothesis =>
        /\ \A i \in 1..Len(stack) : stack[i].f = "prod" => stack[i].try = 0
        /\ ctl.m = "ret" => ctl.err = NoErr
        /\ GenDone => (genResult.err = NoErr /\ genResult.node # NilNode)

\* a grammar whose longest chain is exactly MaxDepth = 2 was generated
C9_Witness ==
    /\ C9_Hypothesis /\ GenDone /\ run = 1
    /\ LongestChain(grammar) = 2 /\ opts.MaxDepth = 2
    /\ genResult.node.n = "triple"

Malformed(g) == HasDuplicateName(g) \/ Overweight(g)

\* C10: for a grammar with a repeated rule name or a rule whose weights sum
\* to more than 1, Grammar.Gen draws nothing, enters no rule and returns an
\* error and no node.
C10_RejectedBeforeSampling ==
    Malformed(grammar) =>
        /\ rngPos = 0 /\ drawLog = <<>>
        /\ expansions = 0 /\ stack = <<>>
        /\ gpc # "gen"
        /\ GenDone =>
              /\ genResult.node = NilNode
              /\ genResult.err \in {ErrDefinedMultipleTimes, ErrWeightsExceed}

\* the second of two rules was rejected for its weights
C10_Witness ==
    /\ GenDone /\ Len(grammar) = 2
    /\ genResult.err = ErrWeightsExceed
    /\ rngPos = 0

\* C11: for a grammar with unique rule names and weights of at most 1 per
\* rule in which some alternative refers to a rule that has no production,
\* Grammar.Gen returns the undefined-rule error and no node, whatever the
\* seed, the depth and the try budget.
C11_UndefinedRuleRejected ==
    (~Malformed(grammar) /\ ~AllRefsDefined(grammar) /\ GenDone) =>
        /\ genResult.node = NilNode
        /\ genResult.err = ErrRuleDoesNotExist

----------------------------------------------------------------------------
(***************************************************************************)
(* Properties of the evaluator and of renderPoint                          *)
(***************************************************************************)
IsPrefix(pre, q) == Len(pre) <= Len(q) /\ SubSeq(q, 1, Len(pre)) = pre

\* Eval was called, in the call e of renderPoint, on the node at path q or
\* on a node below it
Visited(e, q) == \E i \in 1..Len(etrace[e]) : IsPrefix(q, etrace[e][i])

\* the step is taken by the call e of renderPoint
StepOf(e) == ectl'[e] # ectl[e]

CondReturned(e) ==
    /\ Returning(e) /\ ectl[e].err = NoError /\ ETopNode(e).n = "ite"

\* C12: ifThenElse.Eval evaluates the condition first; a condition that is
\* not a boolean gives the not-a-boolean error; otherwise Eval goes on with
\* the then branch for true and the otherwise branch for false, what that
\* branch returns is what the ifThenElse returns, and Eval is never called on
\* a node of the other branch.
C12_ShortCircuit ==
    /\ [](\A e \in Calls : \A i \in 1..Len(etrace[e]) :
            LET pth == etrace[e][i]
            IN  NodeAt(Root, pth).n = "ite" =>
                   /\ i < Len(etrace[e]) => etrace[e][i + 1] = Append(pth, 1)
                   /\ ~(Visited(e, Append(pth, 2)) /\ Visited(e, Append(pth, 3))))
    /\ [][\A e \in Calls : (CondReturned(e) /\ StepOf(e)) =>
            LET cond == ectl[e].node
            IN  /\ estack'[e] = EPop(e)
                /\ etrace'[e] = etrace[e]
                /\ IF cond.n # "bool"
                   THEN ectl'[e] = ERet(NilNode, ValidationError(cond, "boolean"))
                   ELSE ectl'[e] = ECall(Append(ETop(e).path, IF cond.b THEN 2 ELSE 3))]_vars

\* renderPoint returned a color for an ifThenElse whose condition is true and
\* whose otherwise branch adds a boolean
C12_Witness ==
    /\ Root.n = "ite" /\ Root.kids[1] = BooleanValue(TRUE)
    /\ Root.kids[3].n = "op" /\ Root.kids[3].kids[1].n = "bool"
    /\ eout[1] # NoOut /\ eout[1].err = NoError
    /\ ~Visited(1, <<3>>)

AllNumbers(n) == \A i \in 1..3 : n.kids[i].n = "num"

AddXY == OpNode("add", <<ComponentRef("x"), ComponentRef("y")>>)

\* C13: renderPoint returns a color exactly when Eval returned no error and a
\* triple whose three children are numbers; for any other evaluated node it
\* returns no color and a validation error: not a triple for a root that is
\* no triple, not a number for the first child that is no number. For the
\* tree add(x, y) every point fails with the not-a-triple error.
C13_RootValidation ==
    /\ [][\A e \in Calls :
            (ectl[e].m = "ret" /\ estack[e] = <<>> /\ StepOf(e)) =>
                LET n == ectl[e].node
                    good == ectl[e].err = NoError /\ n.n = "triple" /\ AllNumbers(n)
                IN  /\ (eout'[e].color # NoColor) <=> good
                    /\ good => eout'[e].err = NoError
                    /\ (~good /\ ectl[e].err = NoError) =>
                          /\ eout'[e].color = NoColor
                          /\ eout'[e].err.is = IF n.n = "triple" THEN "number" ELSE "triple"
                    /\ (ectl[e].err # NoError) => eout'[e].err = ectl[e].err]_vars
    /\ [](\A e \in Calls : (Root = AddXY /\ eout[e] # NoOut) =>
            /\ eout[e].color = NoColor
            /\ eout[e].err.is = "triple" /\ eout[e].err.node.n = "num")

\* both calls of renderPoint on add(x, y) failed at a point of the second
\* column
C13_Witness ==
    /\ Root = AddXY /\ est.X = Axis(1, 2)
    /\ \A e \in Calls : eout[e] # NoOut /\ eout[e].err.is = "triple"

Arithmetic == {"add", "sub", "mul", "div", "mod"}

OperandsReturned(e) ==
    /\ Returning(e) /\ ectl[e].err = NoError /\ ETopNode(e).n = "op"
    /\ Len(ETop(e).got) = 1

\* C14: op.Eval calls Eval on the left and on the right operand before it
\* looks at either value; if the left value is not a number it returns the
\* not-a-number error carrying that value, else the same for the right
\* value; otherwise add, sub, mul, div and mod return a number and gt, ge, lt
\* and le return a boolean.
C14_BinaryOp ==
    /\ [](\A e \in Calls : OperandsReturned(e) =>
            /\ Visited(e, Append(ETop(e).path, 1))
            /\ Visited(e, Append(ETop(e).path, 2)))
    /\ [][\A e \in Calls : (OperandsReturned(e) /\ StepOf(e)) =>
            LET left == ETop(e).got[1]
                right == ectl[e].node
            IN  /\ estack'[e] = EPop(e)
                /\ IF left.n # "num"
                   THEN ectl'[e] = ERet(NilNode, ValidationError(left, "number"))
                   ELSE IF right.n # "num"
                   THEN ectl'[e] = ERet(NilNode, ValidationError(right, "number"))
                   ELSE /\ ectl'[e].m = "ret" /\ ectl'[e].err = NoError
                        /\ ectl'[e].node.n =
                              IF ETopNode(e).o \in Arithmetic THEN "num" ELSE "bool"]_vars

\* le on two numbers returned a boolean to the next Eval call up
C14_Witness ==
    /\ ectl[1].m = "ret" /\ ectl[1].err = NoError /\ ectl[1].node.n = "bool"
    /\ Root.n = "op" /\ Root.o = "le"
    /\ Len(etrace[1]) = 3

\* C17: Random.Gen takes one value from the seeded source and returns a
\* number node holding 2v - 1; no step of Eval or renderPoint takes a value
\* from the source; and for a tree that is a triple of three number nodes
\* renderPoint returns, whatever the state, the color of those three numbers.
C17_RandomBakedAtGen ==
    /\ [][(gpc = "gen" /\ ctl.m = "gen" /\ ctl.tpl.t = "rand") =>
            /\ rngPos' = rngPos + 1
            /\ ctl' = Ret(NumberValue(Float(2 * Float64(opts.Seed, rngPos) - DrawDen,
                                            DrawDen)), NoErr)]_vars
    /\ [][(\E e \in Calls : StepOf(e)) =>
            (rngPos' = rngPos /\ drawLog' = drawLog)]_vars
    /\ [](\A e \in Calls :
            (Root.n = "triple" /\ AllNumbers(Root) /\ eout[e] # NoOut) =>
                eout[e] = [color |-> RGBA(Root.kids[1].v, Root.kids[2].v, Root.kids[3].v),
                           err |-> NoError])

\* the tree of S ::= {?, ?, ?} for a seed that draws two different values was
\* rendered at a point of the second column, second row, second frame
C17_Witness ==
    /\ grammar[1].alts[1].alt = Triplet(Random, Random, Random)
    /\ Root.n = "triple" /\ Root.kids[1] # Root.kids[2]
    /\ est = CoordState(1, 1, 2, 2, 1, 2)
    /\ \A e \in Calls : eout[e] # NoOut /\ eout[e].color # NoColor

\* C18: no step of Eval or renderPoint changes the generated tree or the
\* state the call was given, whether the two calls run one after the other
\* or interleaved, and two calls on the same tree with equal states return
\* the same color or the same error.
C18_EvalIsPure ==
    /\ [][(\E e \in Calls : StepOf(e) /\ ectl[e].m # "idle") =>
            (genResult' = genResult /\ est' = est)]_vars
    /\ []((\A e \in Calls : eout[e] # NoOut) => eout[1] = eout[2])

\* the calls overlap: one has returned a color that depends on the point
\* while the other is inside the tree
C18_Witness ==
    /\ eout[1] # NoOut /\ eout[1].color # NoColor
    /\ Root.n = "ite" /\ Root.kids[1].n = "op"
    /\ ectl[2].m = "ret" /\ estack[2] # <<>>

InUnit(v) == v.k = "fin" /\ v.m <= v.d

\* C19: every coordinate state S builds has x, y and frame components that
\* are numbers between -1 and 1, also for an axis of one element.
C19_AxesDefined ==
    (\E e \in Calls : ectl[e].m # "idle") =>
        (InUnit(est.X) /\ InUnit(est.Y) /\ InUnit(est.F))

----------------------------------------------------------------------------
(***************************************************************************)
(* Properties of Render, RenderCallback and cancellation                   *)
(***************************************************************************)
TornDown == Returned /\ cancelCalled /\ jobsClosed /\ resultsClosed /\ wExited = Workers

\* C15: RenderCallback calls the callback once for every image frames()
\* yields, the k-th call (from 0) with no = k and the image of frame k; once
\* the callback has returned an error it is not called again, RenderCallback
\* returns that error, and by then the pool is cancelled, its channels are
\* closed and its workers have exited.
C15_CallbackProtocol ==
    /\ [](caller = "RenderCallback" =>
            /\ Len(callbacks) = Len(Images)
            /\ \A k \in 1..Len(callbacks) :
                  callbacks[k] = Callback(k - 1, ImageOf(k - 1)))
    /\ [][(caller = "RenderCallback" /\ ret # NoRet /\ ret.err = CallbackErr) =>
            (callbacks' = callbacks /\ ret' = ret)]_vars
    /\ (caller = "RenderCallback" /\ ret # NoRet /\ ret.err = CallbackErr)
          ~> (TornDown /\ ret = Return(NoImage, CallbackErr))

\* C16: the first thing Render is handed is the image of frame 0 or an
\* error, that is what it returns, nothing else is yielded, and it returns
\* with the pool cancelled, the channels closed and the workers exited, for
\* any number of frames.
C16_PullFirstFrame ==
    /\ [](caller = "Render" =>
            /\ Len(yielded) <= 1
            /\ ret # NoRet =>
                  /\ Len(yielded) = 1
                  /\ \/ (ret = Return(ImageOf(0), NilErr) /\ yielded[1] = ImgItem(ImageOf(0)))
                     \/ (ret.img = NoImage /\ yielded[1] = ErrItem(ret.err.v)))
    /\ (caller = "Render" /\ ret # NoRet) ~> TornDown

\* C20: once the pool's context is done no worker starts processing a job,
\* and a worker that was processing one exits when it is finished with it.
C20_NoStartAfterCancel ==
    [][PoolDone =>
          /\ rendered' = rendered
          /\ wProc' \subseteq wProc
          /\ wIdle' <= wIdle]_vars

----------------------------------------------------------------------------
(***************************************************************************)
(* Properties of the dispatcher, the channels and the reorder buffer       *)
(***************************************************************************)
\* C21: the dispatcher enqueues the frame indices in ascending order, each
\* once (an enqueue appends the index dNext and advances dNext by one, and
\* the indices enqueued so far are 0..dNext-1), and once the caller's or the
\* pool's context is done it enqueues no further index and does not panic.
C21_DispatcherStopsOnCancel ==
    /\ [](dNext \in 0..frames)
    /\ [][/\ (dNext' # dNext) =>
                (dNext' = dNext + 1 /\ jobs' = Append(jobs, dNext))
          /\ PoolDone => /\ dNext' = dNext
                          /\ Len(jobs') <= Len(jobs)
                          /\ panicked' = panicked]_vars

----------------------------------------------------------------------------
(***************************************************************************)
(* Properties of the retry policy and of the selection                     *)
(***************************************************************************)
MaxDepthReturned == gpc = "gen" /\ ctl.m = "ret" /\ ctl.err = ErrReachedMaxDepth

DepthZeroEntered == gpc = "gen" /\ ctl.m = "prod" /\ ctl.depth <= 0

\* C22 as stated: a rule entered with remaining depth zero returns the
\* max-depth error without a draw, and that error goes up through every
\* waiting Gen call, without a draw and without a resample, to the caller of
\* Grammar.Gen.
C22_MaxDepthNotRetried ==
    [][/\ DepthZeroEntered =>
             (ctl' = Ret(NilNode, ErrReachedMaxDepth) /\ rngPos' = rngPos)
       /\ MaxDepthReturned =>
             /\ rngPos' = rngPos
             /\ IF stack = <<>>
                THEN genResult' = [node |-> NilNode, err |-> ErrReachedMaxDepth]
                ELSE stack' = Pop /\ ctl' = ctl]_vars

\* C22 as amended: a rule entered with remaining depth zero returns the
\* max-depth error without a draw; the error goes unchanged through a waiting
\* Func, Triplet or IfThenElse, and a waiting rule counts it as a failed try
\* and goes back to its selection step; Grammar.Gen returns the max-depth
\* error exactly when the start rule itself is entered at depth zero, having
\* entered one rule and drawn nothing.
C22_MaxDepthRetriedByCaller ==
    /\ []((GenDone /\ ~Malformed(grammar)) =>
            /\ (genResult.err = ErrReachedMaxDepth) <=> (opts.MaxDepth <= 0)
            /\ (genResult.err = ErrReachedMaxDepth) =>
                  (expansions = 1 /\ drawLog = <<>> /\ genResult.node = NilNode))
    /\ [][/\ DepthZeroEntered =>
                (ctl' = Ret(NilNode, ErrReachedMaxDepth) /\ rngPos' = rngPos)
          /\ (MaxDepthReturned /\ stack # <<>> /\ Top.f = "node") =>
                (stack' = Pop /\ ctl' = ctl /\ rngPos' = rngPos)
          /\ (MaxDepthReturned /\ stack # <<>> /\ Top.f = "prod") =>
                /\ ctl'.m = "loop"
                /\ stack' = [stack EXCEPT ![Len(stack)].try = @ + 1]
                /\ rngPos' = rngPos]_vars

\* a max-depth error is back at a rule that has already retried once
C22_Witness ==
    /\ MaxDepthReturned
    /\ stack # <<>> /\ Top.f = "prod" /\ Top.try >= 1

MaxTriesReturned ==
    gpc = "gen" /\ ctl.m = "ret" /\ ctl.err = ErrReachedMaxGenerationTries

\* C23: the max-generation-tries error of any rule, nested ones included,
\* goes up through every waiting Gen call, without a draw and without a
\* resample, and Grammar.Gen returns it with no node.
C23_MaxTriesIsFatal ==
    [][MaxTriesReturned =>
          /\ rngPos' = rngPos
          /\ IF stack = <<>>
             THEN genResult' = [node |-> NilNode,
                                err |-> ErrReachedMaxGenerationTries]
             ELSE stack' = Pop /\ ctl' = ctl]_vars

Ascending(alts) ==
    \A i \in 1..(Len(alts) - 1) : alts[i].prob <= alts[i + 1].prob

\* the running sum of the probabilities up to alternative i
RECURSIVE Cumulative(_, _)
Cumulative(alts, i) ==
    IF i = 0 THEN 0 ELSE Cumulative(alts, i - 1) + alts[i].prob

\* C24: once the resolution loop of Grammar.Gen has ended without an error,
\* the alternatives of every production are in ascending order of
\* probability and the rule's table holds the running sums over that order,
\* with max the last of them.
C24_AlternativesSorted ==
    (gpc \in {"gen", "done"} /\ genResult.err \notin
         {ErrDefinedMultipleTimes, ErrWeightsExceed}) =>
        \A i \in 1..Len(grammar) :
            /\ Ascending(grammar[i].alts)
            /\ rules[grammar[i].name].totals =
                  [k \in 1..Len(grammar[i].alts) |-> Cumulative(grammar[i].alts, k)]
            /\ rules[grammar[i].name].max =
                  Cumulative(grammar[i].alts, Len(grammar[i].alts))

\* the rule whose loop is about to select, its alternatives, and the draw
Selecting == gpc = "gen" /\ ctl.m = "loop" /\ Top.try < opts.MaxGenerationTries

SelAlts == grammar[rules[Top.name].idx].alts

SelDraw == Float64(opts.Seed, rngPos)

\* totals[i-1] < x <= totals[i] for the 0-based index i and the sample
\* x = d/DrawDen * max, with totals[-1] read as 0 and x = 0 selecting index 0
Selects(prod, d, i) ==
    IF d * prod.max = 0 THEN i = 0
    ELSE /\ (i = 0 \/ prod.totals[i] * DrawDen < d * prod.max)
         /\ d * prod.max <= prod.totals[i + 1] * DrawDen

\* C25: when a rule selects, its sample lies in [0, max) (or is 0 for a
\* rule of mass 0), exactly one index of its alternatives satisfies
\* totals[i-1] < x <= totals[i], that index is the least one whose total is
\* >= x, and the alternative generated next, one level deeper, is the one
\* at that index.
C25_Selection ==
    [][Selecting =>
          LET prod == rules[Top.name]
              n == Len(SelAlts)
              hit == {i \in 0..(n - 1) : Selects(prod, SelDraw, i)}
          IN  /\ SelDraw * prod.max < DrawDen * prod.max \/ prod.max = 0
              /\ Cardinality(hit) = 1
              /\ \A i \in hit :
                    /\ \A k \in 0..(n - 1) :
                          (SelDraw * prod.max <= prod.totals[k + 1] * DrawDen)
                              => i <= k
                    /\ ctl' = CallGen(SelAlts[i + 1].alt, Top.depth - 1)
                    /\ drawLog' = Append(drawLog, SelDraw)]_vars

\* a rule of three distinct alternatives has just selected its third
C25_Witness ==
    /\ gpc = "gen" /\ ctl.m = "gen" /\ stack # <<>> /\ Top.f = "prod"
    /\ Len(SelAlts) = 3
    /\ ctl.tpl = SelAlts[3].alt
    /\ ctl.tpl # SelAlts[1].alt /\ ctl.tpl # SelAlts[2].alt

\* C26: no goroutine sends on a closed channel: the dispatcher never makes
\* its send once the job channel is closed, no worker sends once the result
\* channel is closed, and the result channel is closed only after every
\* worker has exited.
C26_NoSendOnClosedChannel ==
    /\ [](~panicked)
    /\ [](resultsClosed => (wExited = Workers /\ wSend = {} /\ wProc = {}))
    /\ [][/\ jobsClosed => (dNext' = dNext /\ Len(jobs') <= Len(jobs))
          /\ resultsClosed => results' = results]_vars

\* C27: the reorder buffer is strictly ascending by frame index and holds
\* only images of frames below the frame count; whenever the reassembly loop
\* is at the top of an iteration every buffered frame is above the next
\* expected one, so the head differs from it and the buffer holds at most
\* frames-1 results.
C27_ReorderBuffer ==
    /\ \A i \in 1..Len(buf) :
          /\ buf[i].frame \in 0..(frames - 1)
          /\ ~buf[i].err
          /\ buf[i].img = ImageOf(buf[i].frame)
    /\ \A i \in 1..(Len(buf) - 1) : buf[i].frame < buf[i + 1].frame
    /\ (pc = "loop") =>
          /\ \A i \in 1..Len(buf) : buf[i].frame > expectedFrame
          /\ Len(buf) <= frames - 1

\* frame 2 arrived first and stays buffered behind the emitted frame 0 while
\* frame 1 is awaited
C27_Witness ==
    /\ pc = "loop" /\ expectedFrame = 1
    /\ Len(buf) = 1 /\ buf[1].frame = 2
    /\ yielded = <<ImgItem(ImageOf(0))>>

\* C28: the jobs and results in flight are at most the indices enqueued so
\* far, which are at most frames, and frames is below the capacity of
\* 10 x max(frames, 10) of either channel: neither queue ever reaches its
\* capacity, the dispatcher's send is possible whenever it has an index left
\* and a worker's send whenever it holds a result.
C28_QueuesBelowCapacity ==
    /\ Len(jobs) + Cardinality(wProc) + Cardinality(wSend) + Len(results) <= dNext
    /\ dNext <= frames
    /\ frames < ChanCap
    /\ Len(jobs) < ChanCap /\ Len(results) < ChanCap
    /\ (Alive /\ dpc = "run" /\ dNext < frames) => ENABLED DispatchSend
    /\ (Alive /\ wSend # {}) => ENABLED WorkerSend

\* a slow consumer: every frame's result is queued and none has been taken
C28_Witness ==
    /\ frames = MaxFrames /\ Len(results) = frames
    /\ pc = "loop" /\ expectedFrame = 0 /\ buf = <<>>
    /\ dpc = "exited"

====
